---- MODULE Spec2Model ----
(***************************************************************************)
(* Model of scripts/generate_data.py: the taxonomy tree / lookup           *)
(* generators, the exact and fuzzy concordance builders and the two        *)
(* taxonomy composers.                                                     *)
(*                                                                         *)
(* Strings are sequences of one-character strings (so that slicing,        *)
(* prefix tests and dot-stripping are computed, not assumed); the fixed    *)
(* id prefixes ("cpc-", "hts-", "t2-", ...) are single tokens.  Python     *)
(* dict objects that are shared by reference (a node held both by a        *)
(* code->node map and by its parent's children list) live in a heap: a     *)
(* sequence of node records, a reference being an index into it.           *)
(***************************************************************************)
EXTENDS Integers, Sequences, FiniteSets, TLC

VARIABLES gen, pc, rows, st, files

vars == <<gen, pc, rows, st, files>>

\* ------------------------------------------------------------------------
\* Bounds of the model
\* ------------------------------------------------------------------------
MaxRows == 4

\* Rows of a run that explores every indent sequence (generate_hts).
MaxIndentRows == 5

\* HS subheadings and UNSPSC commodities of a fuzzy-mapping run.
MaxTargets == 4

MaxSources == 2

\* HTS items below the heading, and concordance rows, of a composer run.
MaxDetailRows == 3

MaxMappings == 2

\* Rows of CPC21-HS2017.csv.
MaxPairs == 3

\* Number of values hash(desc) % 100000 ranges over.
HashValues == 2

\* Number of subheadings and of commodities of a run of the reverse mapping.
MaxReverseTargets == 4

MaxReverseSources == 4

\* ------------------------------------------------------------------------
\* Strings, lists and dicts
\* ------------------------------------------------------------------------
Range(s) == { s[i] : i \in 1..Len(s) }

Min2(a, b) == IF a < b THEN a ELSE b

\* s[:n]
Take(s, n) == SubSeq(s, 1, Min2(n, Len(s)))

\* s[n:]
Drop(s, n) == SubSeq(s, n + 1, Len(s))

\* s[:-1]
DropLast(s) == SubSeq(s, 1, Len(s) - 1)

\* s.startswith(p)
StartsWith(s, p) == Len(p) <= Len(s) /\ SubSeq(s, 1, Len(p)) = p

\* s.replace(c, '') for a one-character c
RECURSIVE Strip(_, _)
Strip(s, c) ==
    IF s = <<>> THEN <<>>
    ELSE IF Head(s) = c THEN Strip(Tail(s), c)
         ELSE <<Head(s)>> \o Strip(Tail(s), c)

Digit == {"0", "1", "2", "3", "4", "5", "6", "7", "8", "9"}

DigitStr == <<"0", "1", "2", "3", "4", "5", "6", "7", "8", "9">>

\* str(n) for a natural number n
RECURSIVE IntStr(_)
IntStr(n) ==
    IF n < 10 THEN <<DigitStr[n + 1]>>
    ELSE IntStr(n \div 10) \o <<DigitStr[(n % 10) + 1]>>

\* A Python dict: the keys in insertion order and the value of each key.
EmptyDict == [keys |-> <<>>, val |-> <<>>]

Has(d, k) == k \in Range(d.keys)

Get(d, k) == d.val[CHOOSE i \in 1..Len(d.keys) : d.keys[i] = k]

\* d[k] = v : a new key goes last, an old key keeps its place
Put(d, k, v) ==
    IF Has(d, k)
    THEN [d EXCEPT !.val[CHOOSE i \in 1..Len(d.keys) : d.keys[i] = k] = v]
    ELSE [keys |-> Append(d.keys, k), val |-> Append(d.val, v)]

Keys(d) == Range(d.keys)

\* ------------------------------------------------------------------------
\* Nodes
\* ------------------------------------------------------------------------
\* A node dict; hasChildren says whether the 'children' key is present.
Node(id, code, name, type, hasChildren) ==
    [id |-> id, code |-> code, name |-> name, type |-> type,
     hasChildren |-> hasChildren, children |-> <<>>]

\* parent['children'].append(node), creating the key when it is absent
AppendChild(heap, p, c) ==
    [heap EXCEPT ![p].hasChildren = TRUE, ![p].children = Append(@, c)]

\* clean_tree without the recursion into non-empty 'children'
RECURSIVE clean_tree_roots_only(_, _)
clean_tree_roots_only(heap, nodes) ==
    IF nodes = <<>> THEN heap
    ELSE LET n == Head(nodes)
         IN  clean_tree_roots_only(
               IF heap[n].hasChildren /\ Len(heap[n].children) = 0
               THEN [heap EXCEPT ![n].hasChildren = FALSE] ELSE heap,
               Tail(nodes))

\* def clean_tree(nodes): delete empty 'children', recurse into the others
RECURSIVE clean_tree(_, _)
clean_tree(heap, nodes) ==
    IF nodes = <<>> THEN heap
    ELSE LET n == Head(nodes)
             h1 == IF heap[n].hasChildren
                   THEN IF Len(heap[n].children) = 0
                        THEN [heap EXCEPT ![n].hasChildren = FALSE]
                        ELSE clean_tree(heap, heap[n].children)
                   ELSE heap
         IN  clean_tree(h1, Tail(nodes))

\* The node references reachable from a root list, in depth-first preorder.
RECURSIVE Walk(_, _)
Walk(heap, nodes) ==
    IF nodes = <<>> THEN <<>>
    ELSE LET n == Head(nodes)
         IN  <<n>> \o (IF heap[n].hasChildren THEN Walk(heap, heap[n].children)
                       ELSE <<>>)
                   \o Walk(heap, Tail(nodes))

\* copy.deepcopy of a list of nodes (also what json.dump followed by json.load
\* gives): fresh node objects for everything reachable, appended to heap dst.
RECURSIVE CopyList(_, _, _)
CopyList(src, nodes, dst) ==
    IF nodes = <<>> THEN [heap |-> dst, refs |-> <<>>]
    ELSE LET n    == Head(nodes)
             me   == Len(dst) + 1
             d1   == Append(dst, [src[n] EXCEPT !.children = <<>>])
             kids == IF src[n].hasChildren
                     THEN CopyList(src, src[n].children, d1)
                     ELSE [heap |-> d1, refs |-> <<>>]
             d2   == [kids.heap EXCEPT ![me].children = kids.refs]
             rest == CopyList(src, Tail(nodes), d2)
         IN  [heap |-> rest.heap, refs |-> <<me>> \o rest.refs]

\* A tree document as written by write_json and read back by json.load.
TreeDoc(heap, tree) ==
    LET c == CopyList(heap, tree, <<>>) IN [heap |-> c.heap, tree |-> c.refs]

\* def write_json(filename, data)
write_json(fs, filename, data) == (filename :> data) @@ fs

\* The title of the k-th row of a file whose titles play no part in control flow.
RowTitle(k) == <<"n">> \o IntStr(k)

\* ------------------------------------------------------------------------
\* 2. generate_cpc
\* ------------------------------------------------------------------------
\* Codes the rows of cpc-structure.txt are drawn from.
CpcCodes ==
    { <<>>, <<"0">>, <<"5">>, <<"0", "1">>, <<"5", "1">>, <<"0", "1", "1">>,
      <<"0", "1", "1", "1", "1">>, <<"0", "1", "1", "1", "1", "0">> }

cpc_level_names(level) ==
    CASE level = 1 -> "section"
      [] level = 2 -> "division"
      [] level = 3 -> "group"
      [] level = 4 -> "class"
      [] level = 5 -> "subclass"
      [] OTHER     -> "item"

cpc_locals == [heap |-> <<>>, tree |-> <<>>, nodes_by_code |-> EmptyDict]

\* cpc_entry that files every code under its section, code[:1]
cpc_entry_under_section(s, entry) ==
    LET code  == entry.code
        level == Len(code)
        me    == Len(s.heap) + 1
        node  == Node(<<"cpc-">> \o code, code, entry.title,
                      cpc_level_names(level), level < 5)
        heap1 == Append(s.heap, node)
        nbc   == Put(s.nodes_by_code, code, me)
        parent_code == Take(code, 1)
    IN  IF level = 1
        THEN [s EXCEPT !.heap = heap1, !.nodes_by_code = nbc,
                       !.tree = Append(s.tree, me)]
        ELSE IF Has(nbc, parent_code)
             THEN [s EXCEPT !.heap = AppendChild(heap1, Get(nbc, parent_code), me),
                            !.nodes_by_code = nbc]
             ELSE [s EXCEPT !.heap = heap1, !.nodes_by_code = nbc]

\* One pass of "for entry in codes" (tree building).
cpc_entry(s, entry) ==
    LET code  == entry.code
        level == Len(code)
        me    == Len(s.heap) + 1
        node  == Node(<<"cpc-">> \o code, code, entry.title,
                      cpc_level_names(level), level < 5)
        heap1 == Append(s.heap, node)
        nbc   == Put(s.nodes_by_code, code, me)
        parent_code == DropLast(code)
    IN  IF level = 1
        THEN [s EXCEPT !.heap = heap1, !.nodes_by_code = nbc,
                       !.tree = Append(s.tree, me)]
        ELSE IF Has(nbc, parent_code)
             THEN [s EXCEPT !.heap = AppendChild(heap1, Get(nbc, parent_code), me),
                            !.nodes_by_code = nbc]
             ELSE [s EXCEPT !.heap = heap1, !.nodes_by_code = nbc]

\* One pass of "for entry in codes" (lookup building).
cpc_lookup_entry(s, lookup, entry) ==
    LET code == entry.code
        section_code == Take(code, 1)
        section_name == IF Has(s.nodes_by_code, section_code)
                        THEN s.heap[Get(s.nodes_by_code, section_code)].name
                        ELSE <<>>
    IN  Put(lookup, code,
            [code |-> code, description |-> entry.title,
             section |-> section_code, sectionName |-> section_name,
             level |-> Len(code), type |-> cpc_level_names(Len(code))])

RECURSIVE cpc_lookup(_, _, _)
cpc_lookup(s, lookup, codes) ==
    IF codes = <<>> THEN lookup
    ELSE cpc_lookup(s, cpc_lookup_entry(s, lookup, Head(codes)), Tail(codes))

\* clean_tree(tree), the lookup, and the two write_json calls.
cpc_finish(s, codes, fs) ==
    LET s1 == [s EXCEPT !.heap = clean_tree(s.heap, s.tree)]
    IN  [st |-> s1,
         files |-> write_json(write_json(fs, "cpc-tree.json", TreeDoc(s1.heap, s1.tree)),
                              "cpc-lookup.json", cpc_lookup(s1, EmptyDict, codes))]

RECURSIVE cpc_run(_, _)
cpc_run(s, codes) ==
    IF codes = <<>> THEN s ELSE cpc_run(cpc_entry(s, Head(codes)), Tail(codes))

\* generate_cpc() on the rows codes, with the files fs already written.
generate_cpc(codes, fs) == cpc_finish(cpc_run(cpc_locals, codes), codes, fs).files

CpcRow ==
    /\ gen = "cpc" /\ pc = "rows" /\ Len(rows) < MaxRows
    /\ \E code \in CpcCodes :
          LET entry == [code |-> code, title |-> RowTitle(Len(rows) + 1)]
          IN  /\ rows' = Append(rows, entry)
              /\ st' = cpc_entry(st, entry)
    /\ UNCHANGED <<gen, pc, files>>

CpcWrite ==
    /\ gen = "cpc" /\ pc = "rows"
    /\ LET r == cpc_finish(st, rows, files)
       IN  st' = r.st /\ files' = r.files
    /\ pc' = "done"
    /\ UNCHANGED <<gen, rows>>

NoFiles == <<>>

InitCpc ==
    /\ gen = "cpc" /\ pc = "rows" /\ rows = <<>>
    /\ st = cpc_locals /\ files = NoFiles

NextCpc == CpcRow \/ CpcWrite

SpecCpc == InitCpc /\ [][NextCpc]_vars

\* ------------------------------------------------------------------------
\* hs-sections.csv and the section nodes of generate_hs / _hts / _canadian
\* ------------------------------------------------------------------------
I_ == <<"I">>

II_ == <<"I", "I">>

XXII_ == <<"X", "X", "I", "I">>

\* Contents of hs-sections.csv the runs are drawn from: section -> name, in
\* file order.  Names are over the letters a, b, A, B.
SectionTables ==
    { [keys |-> <<I_, II_>>, val |-> << <<"a", "b">>, <<"A", "b">> >>],
      [keys |-> <<I_, XXII_>>, val |-> << <<"a", "B">>, <<"a", " ", "b">> >>],
      [keys |-> <<II_, I_>>, val |-> << <<"B", "a">>, <<>> >>],
      EmptyDict }

\* The table of a run whose sections play no part.
SectionTables1 == [keys |-> <<I_, II_>>, val |-> << <<"a", "b">>, <<"A", "b">> >>]

LowerLetters == <<"a", "b", "c", "d", "e", "f", "g", "h", "i", "j", "k", "l", "m",
                  "n", "o", "p", "q", "r", "s", "t", "u", "v", "w", "x", "y", "z">>

UpperLetters == <<"A", "B", "C", "D", "E", "F", "G", "H", "I", "J", "K", "L", "M",
                  "N", "O", "P", "Q", "R", "S", "T", "U", "V", "W", "X", "Y", "Z">>

\* c.islower() for one character
IsLower(c) == c \in Range(LowerLetters)

IsCased(c) == c \in Range(LowerLetters) \cup Range(UpperLetters)

Upper(c) ==
    IF IsLower(c) THEN UpperLetters[CHOOSE i \in 1..26 : LowerLetters[i] = c] ELSE c

Lower(c) ==
    IF c \in Range(UpperLetters)
    THEN LowerLetters[CHOOSE i \in 1..26 : UpperLetters[i] = c] ELSE c

\* str.title(): a cased character is upper-cased after an uncased one (or at
\* the start) and lower-cased after a cased one.
RECURSIVE TitleFrom(_, _)
TitleFrom(s, prevCased) ==
    IF s = <<>> THEN <<>>
    ELSE <<IF prevCased THEN Lower(Head(s)) ELSE Upper(Head(s))>>
         \o TitleFrom(Tail(s), IsCased(Head(s)))

\* section_name.title() if section_name[0].islower() else section_name
section_label(section_name) ==
    IF IsLower(section_name[1]) THEN TitleFrom(section_name, FALSE)
    ELSE section_name

\* "for section_roman, section_name in sections.items()": one section node
\* per row of the table, appended to the tree.  An empty name raises
\* IndexError at section_name[0]: ok is FALSE and the generator stops there.
RECURSIVE section_loop(_, _, _, _)
section_loop(s, sections, k, prefix) ==
    IF k > Len(sections.keys) THEN [s EXCEPT !.ok = TRUE]
    ELSE LET section_roman == sections.keys[k]
             section_name  == sections.val[k]
             me == Len(s.heap) + 1
         IN  IF section_name = <<>> THEN [s EXCEPT !.ok = FALSE]
             ELSE section_loop(
                    [s EXCEPT
                       !.heap = Append(@, Node(<<prefix, "section-">> \o section_roman,
                                               section_roman, section_label(section_name),
                                               "section", TRUE)),
                       !.section_nodes = Put(@, section_roman, me),
                       !.tree = Append(@, me)],
                    sections, k + 1, prefix)

\* if 'XXII' not in section_nodes: add 'Special Classification Provisions'
special_section(s, prefix) ==
    IF Has(s.section_nodes, XXII_) THEN s
    ELSE LET me == Len(s.heap) + 1
         IN  [s EXCEPT
                !.heap = Append(@, Node(<<prefix, "section-">> \o XXII_, XXII_,
                                        <<"S", "C", "P">>, "section", TRUE)),
                !.section_nodes = Put(@, XXII_, me),
                !.tree = Append(@, me)]

\* ------------------------------------------------------------------------
\* 1. generate_hs
\* ------------------------------------------------------------------------
\* Rows of hs-codes.csv the runs are drawn from (description apart).
HsRows ==
    { [level |-> "2", hscode |-> <<"0", "1">>, section |-> I_, parent |-> <<>>],
      [level |-> "2", hscode |-> <<"0", "6">>, section |-> II_, parent |-> <<>>],
      [level |-> "4", hscode |-> <<"0", "1", "0", "1">>, section |-> I_,
       parent |-> <<"0", "1">>],
      [level |-> "4", hscode |-> <<"0", "6", "0", "1">>, section |-> II_,
       parent |-> <<"0", "6">>],
      [level |-> "6", hscode |-> <<"0", "1", "0", "1", "2", "1">>, section |-> I_,
       parent |-> <<"0", "1", "0", "1">>],
      [level |-> "5", hscode |-> <<"0", "6", "0", "1", "1">>, section |-> II_,
       parent |-> <<"0", "6", "0", "1">>],
      [level |-> "8", hscode |-> <<"0", "1", "0", "1", "2", "1", "0", "0">>,
       section |-> I_, parent |-> <<"0", "1", "0", "1", "2", "1">>] }

hs_level_map(level) ==
    CASE level = "2" -> "chapter"
      [] level = "4" -> "heading"
      [] level = "5" -> "subheading"
      [] level = "6" -> "subheading"
      [] OTHER       -> "unknown"

\* int(code['level'])
hs_level_int(level) ==
    CASE level = "2" -> 2 [] level = "4" -> 4 [] level = "5" -> 5
      [] level = "6" -> 6 [] level = "8" -> 8

hs_locals(sections) ==
    [heap |-> <<>>, tree |-> <<>>, sections |-> sections, ok |-> TRUE,
     section_nodes |-> EmptyDict, chapter_nodes |-> EmptyDict,
     heading_nodes |-> EmptyDict]

\* "Create section nodes"
hs_sections(s) == section_loop(s, s.sections, 1, "hs-")

\* One pass of "for code in codes" (tree building).
hs_row(s, code) ==
    LET me == Len(s.heap) + 1
        id == <<"hs-">> \o code.hscode
    IN  CASE code.level = "2" ->
               LET h1 == Append(s.heap, Node(id, code.hscode, code.description,
                                             "chapter", TRUE))
               IN  [s EXCEPT
                      !.chapter_nodes = Put(@, code.hscode, me),
                      !.heap = IF Has(s.section_nodes, code.section)
                               THEN AppendChild(h1, Get(s.section_nodes, code.section), me)
                               ELSE h1]
          [] code.level = "4" ->
               LET h1 == Append(s.heap, Node(id, code.hscode, code.description,
                                             "heading", TRUE))
               IN  [s EXCEPT
                      !.heading_nodes = Put(@, code.hscode, me),
                      !.heap = IF Has(s.chapter_nodes, code.parent)
                               THEN AppendChild(h1, Get(s.chapter_nodes, code.parent), me)
                               ELSE h1]
          [] code.level \in {"5", "6"} ->
               LET h1 == Append(s.heap, Node(id, code.hscode, code.description,
                                             "subheading", FALSE))
               IN  [s EXCEPT
                      !.heap = IF Has(s.heading_nodes, code.parent)
                               THEN AppendChild(h1, Get(s.heading_nodes, code.parent), me)
                               ELSE h1]
          [] OTHER -> s

RECURSIVE hs_lookup(_, _, _)
hs_lookup(s, lookup, codes) ==
    IF codes = <<>> THEN lookup
    ELSE LET code == Head(codes)
         IN  hs_lookup(s,
                Put(lookup, code.hscode,
                    [code |-> code.hscode, description |-> code.description,
                     section |-> code.section,
                     sectionName |-> IF Has(s.sections, code.section)
                                     THEN Get(s.sections, code.section) ELSE <<>>,
                     level |-> hs_level_int(code.level),
                     type |-> hs_level_map(code.level)]),
                Tail(codes))

\* clean_tree(tree), the lookup, and the two write_json calls.
hs_finish(s, codes, fs) ==
    LET s1 == [s EXCEPT !.heap = clean_tree(s.heap, s.tree)]
    IN  [st |-> s1,
         files |-> write_json(write_json(fs, "hs-tree.json", TreeDoc(s1.heap, s1.tree)),
                              "hs-lookup.json", hs_lookup(s1, EmptyDict, codes))]

RECURSIVE hs_run(_, _)
hs_run(s, codes) ==
    IF codes = <<>> THEN s ELSE hs_run(hs_row(s, Head(codes)), Tail(codes))

\* generate_hs() on the section table and the rows codes; a run that raises
\* writes nothing.
generate_hs(sections, codes, fs) ==
    LET s0 == hs_sections(hs_locals(sections))
    IN  IF s0.ok THEN hs_finish(hs_run(s0, codes), codes, fs).files ELSE fs

HsSections ==
    /\ gen = "hs" /\ pc = "sections"
    /\ st' = hs_sections(st)
    /\ pc' = IF st'.ok THEN "rows" ELSE "crashed"
    /\ UNCHANGED <<gen, rows, files>>

HsRow ==
    /\ gen = "hs" /\ pc = "rows" /\ Len(rows) < MaxRows
    /\ \E r \in HsRows :
          LET code == [level |-> r.level, hscode |-> r.hscode, section |-> r.section,
                       parent |-> r.parent, description |-> RowTitle(Len(rows) + 1)]
          IN  /\ rows' = Append(rows, code)
              /\ st' = hs_row(st, code)
    /\ UNCHANGED <<gen, pc, files>>

HsWrite ==
    /\ gen = "hs" /\ pc = "rows"
    /\ LET r == hs_finish(st, rows, files)
       IN  st' = r.st /\ files' = r.files
    /\ pc' = "done"
    /\ UNCHANGED <<gen, rows>>

InitHs ==
    /\ gen = "hs" /\ pc = "sections" /\ rows = <<>> /\ files = NoFiles
    /\ \E sections \in SectionTables : st = hs_locals(sections)

NextHs == HsSections \/ HsRow \/ HsWrite

SpecHs == InitHs /\ [][NextHs]_vars

\* ------------------------------------------------------------------------
\* 3. generate_cn
\* ------------------------------------------------------------------------
AllDigits(s) == \A i \in 1..Len(s) : s[i] \in Digit

\* The maximal runs of non-space characters of s, in order.
RECURSIVE Fields(_, _)
Fields(s, run) ==
    IF s = <<>> THEN (IF run = <<>> THEN <<>> ELSE <<run>>)
    ELSE IF Head(s) = " "
         THEN (IF run = <<>> THEN <<>> ELSE <<run>>) \o Fields(Tail(s), <<>>)
         ELSE Fields(Tail(s), Append(run, Head(s)))

\* re.match(r'^\d{a}(\s+\d{b})*$', s) for the digit-group widths given
MatchesGroups(s, widths) ==
    LET f == Fields(s, <<>>)
    IN  /\ s # <<>> /\ s[1] # " " /\ s[Len(s)] # " "
        /\ Len(f) = Len(widths)
        /\ \A i \in 1..Len(f) : Len(f[i]) = widths[i] /\ AllDigits(f[i])

\* re.match(r'^[IVX]+$', s)
IsRoman(s) == s # <<>> /\ \A i \in 1..Len(s) : s[i] \in {"I", "V", "X"}

\* Rows of the CN sheet the runs are drawn from: the CN column and whether the
\* description holds 'COMBINED NOMENCLATURE' (the title row).
CnRows ==
    { [cn |-> <<>>, titleRow |-> TRUE],
      [cn |-> I_, titleRow |-> FALSE],
      [cn |-> <<"0", "1">>, titleRow |-> FALSE],
      [cn |-> <<"0", "1", "0", "1">>, titleRow |-> FALSE],
      [cn |-> <<"0", "1", "0", "1", " ", "2", "1">>, titleRow |-> FALSE],
      [cn |-> <<"0", "1", "0", "1", " ", "2", "1", " ", "0", "0">>, titleRow |-> FALSE],
      [cn |-> <<"0", "1", "0", "1", " ", "2", "9", " ", "0", "0">>, titleRow |-> FALSE] }

cn_locals ==
    [heap |-> <<>>, tree |-> <<>>, ok |-> TRUE, current_section |-> <<>>,
     section_nodes |-> EmptyDict, chapter_nodes |-> EmptyDict,
     heading_nodes |-> EmptyDict, subheading_nodes |-> EmptyDict,
     cn8_nodes |-> EmptyDict]

\* One pass of "for row in rows".  current_section = <<>> stands for None.
cn_row(s, row) ==
    LET cn_code  == row.cn
        desc     == row.description
        clean_cn == Strip(cn_code, " ")
        me       == Len(s.heap) + 1
        id       == <<"cn-">> \o clean_cn
    IN  CASE cn_code = <<>> /\ row.dashes = <<>> /\ row.titleRow -> s
          [] IsRoman(cn_code) ->
               [s EXCEPT
                  !.current_section = cn_code,
                  !.heap = Append(@, Node(<<"cn-", "section-">> \o cn_code, cn_code,
                                          desc, "section", TRUE)),
                  !.section_nodes = Put(@, cn_code, me),
                  !.tree = Append(@, me)]
          [] MatchesGroups(cn_code, <<2>>) ->
               LET h1 == Append(s.heap, Node(id, cn_code, desc, "chapter", TRUE))
               IN  [s EXCEPT
                      !.chapter_nodes = Put(@, cn_code, me),
                      !.heap = IF s.current_section # <<>>
                                  /\ Has(s.section_nodes, s.current_section)
                               THEN AppendChild(h1, Get(s.section_nodes,
                                                        s.current_section), me)
                               ELSE h1]
          [] MatchesGroups(cn_code, <<4>>) ->
               LET h1 == Append(s.heap, Node(id, cn_code, desc, "heading", TRUE))
                   chapter == Take(cn_code, 2)
               IN  [s EXCEPT
                      !.heading_nodes = Put(@, cn_code, me),
                      !.heap = IF Has(s.chapter_nodes, chapter)
                               THEN AppendChild(h1, Get(s.chapter_nodes, chapter), me)
                               ELSE h1]
          [] MatchesGroups(cn_code, <<4, 2>>) ->
               LET h1 == Append(s.heap, Node(id, clean_cn, desc, "subheading", TRUE))
                   heading == Take(clean_cn, 4)
               IN  [s EXCEPT
                      !.subheading_nodes = Put(@, clean_cn, me),
                      !.heap = IF Has(s.heading_nodes, heading)
                               THEN AppendChild(h1, Get(s.heading_nodes, heading), me)
                               ELSE h1]
          [] MatchesGroups(cn_code, <<4, 2, 2>>) ->
               LET h1 == Append(s.heap, Node(id, clean_cn, desc, "cn8", FALSE))
                   subheading == Take(clean_cn, 6)
               IN  [s EXCEPT
                      !.cn8_nodes = Put(@, clean_cn, me),
                      !.heap = IF Has(s.subheading_nodes, subheading)
                               THEN AppendChild(h1, Get(s.subheading_nodes, subheading), me)
                               ELSE IF Has(s.heading_nodes, Take(clean_cn, 4))
                               THEN AppendChild(h1, Get(s.heading_nodes,
                                                        Take(clean_cn, 4)), me)
                               ELSE h1]
          [] OTHER -> s

cn_level_map(type) ==
    CASE type = "section" -> 1 [] type = "chapter" -> 2 [] type = "heading" -> 4
      [] type = "subheading" -> 6 [] type = "cn8" -> 8 [] OTHER -> 0

\* def add_to_lookup(nodes, section='', section_name='') of generate_cn
RECURSIVE cn_add_to_lookup(_, _, _, _, _)
cn_add_to_lookup(heap, nodes, section, section_name, lookup) ==
    IF nodes = <<>> THEN lookup
    ELSE LET node == heap[Head(nodes)]
             sec  == IF node.type = "section" THEN node.code ELSE section
             sn   == IF node.type = "section" THEN node.name ELSE section_name
             l1   == Put(lookup, node.code,
                         [code |-> node.code, description |-> node.name,
                          section |-> sec, sectionName |-> sn,
                          level |-> cn_level_map(node.type), type |-> node.type])
             l2   == IF node.hasChildren
                     THEN cn_add_to_lookup(heap, node.children, sec, sn, l1)
                     ELSE l1
         IN  cn_add_to_lookup(heap, Tail(nodes), sec, sn, l2)

\* clean_tree(tree), add_to_lookup(tree), and the two write_json calls.
cn_finish(s, fs) ==
    LET s1 == [s EXCEPT !.heap = clean_tree(s.heap, s.tree)]
    IN  [st |-> s1,
         files |-> write_json(write_json(fs, "cn-tree.json", TreeDoc(s1.heap, s1.tree)),
                              "cn-lookup.json",
                              cn_add_to_lookup(s1.heap, s1.tree, <<>>, <<>>, EmptyDict))]

\* "import openpyxl" failing: the generator returns before reading anything.
CnImportError ==
    /\ gen = "cn" /\ pc = "import" /\ ~st.ok
    /\ pc' = "aborted"
    /\ UNCHANGED <<gen, rows, st, files>>

CnRow ==
    /\ gen = "cn" /\ pc = "import" /\ st.ok /\ Len(rows) < MaxRows
    /\ \E r \in CnRows :
          LET row == [cn |-> r.cn, dashes |-> <<>>, titleRow |-> r.titleRow,
                      description |-> RowTitle(Len(rows) + 1)]
          IN  /\ rows' = Append(rows, row)
              /\ st' = cn_row(st, row)
    /\ UNCHANGED <<gen, pc, files>>

CnWrite ==
    /\ gen = "cn" /\ pc = "import" /\ st.ok
    /\ LET r == cn_finish(st, files)
       IN  st' = r.st /\ files' = r.files
    /\ pc' = "done"
    /\ UNCHANGED <<gen, rows>>

InitCn ==
    /\ gen = "cn" /\ pc = "import" /\ rows = <<>> /\ files = NoFiles
    /\ \E installed \in BOOLEAN : st = [cn_locals EXCEPT !.ok = installed]

NextCn == CnImportError \/ CnRow \/ CnWrite

SpecCn == InitCn /\ [][NextCn]_vars

\* ------------------------------------------------------------------------
\* 4. generate_hts
\* ------------------------------------------------------------------------
DigitVal(c) == CHOOSE i \in 0..9 : DigitStr[i + 1] = c

\* chapter_to_section.get(chapter, 'I') for the table of generate_hts and
\* generate_canadian ('77' and '00' are not in it).
chapter_to_section_get(chapter) ==
    LET n == IF Len(chapter) = 2 /\ AllDigits(chapter)
             THEN 10 * DigitVal(chapter[1]) + DigitVal(chapter[2]) ELSE 0
    IN  CASE n \in 1..5   -> I_
          [] n \in 6..14  -> II_
          [] n = 15       -> <<"I", "I", "I">>
          [] n \in 16..24 -> <<"I", "V">>
          [] n \in 25..27 -> <<"V">>
          [] n \in 28..38 -> <<"V", "I">>
          [] n \in 39..40 -> <<"V", "I", "I">>
          [] n \in 41..43 -> <<"V", "I", "I", "I">>
          [] n \in 44..46 -> <<"I", "X">>
          [] n \in 47..49 -> <<"X">>
          [] n \in 50..63 -> <<"X", "I">>
          [] n \in 64..67 -> <<"X", "I", "I">>
          [] n \in 68..70 -> <<"X", "I", "I", "I">>
          [] n = 71       -> <<"X", "I", "V">>
          [] n \in (72..76) \cup (78..83) -> <<"X", "V">>
          [] n \in 84..85 -> <<"X", "V", "I">>
          [] n \in 86..89 -> <<"X", "V", "I", "I">>
          [] n \in 90..92 -> <<"X", "V", "I", "I", "I">>
          [] n = 93       -> <<"X", "I", "X">>
          [] n \in 94..96 -> <<"X", "X">>
          [] n = 97       -> <<"X", "X", "I">>
          [] n \in 98..99 -> XXII_
          [] OTHER        -> I_

\* desc.rstrip(':')
RECURSIVE RStripColon(_)
RStripColon(s) ==
    IF s # <<>> /\ s[Len(s)] = ":" THEN RStripColon(DropLast(s)) ELSE s

\* a node type under which every record is a group
hts_node_type_group(code_len) == "group"

hts_node_type(code_len) ==
    CASE code_len = 4  -> "heading"
      [] code_len = 6  -> "subheading"
      [] code_len = 8  -> "tariff_8"
      [] code_len = 10 -> "tariff_10"
      [] OTHER         -> "group"

\* current_chapter = <<>> stands for None; stack holds [indent, node] pairs;
\* hashes remembers hash(desc) % 100000 of the descriptions hashed so far.
hts_locals(sections) ==
    [heap |-> <<>>, tree |-> <<>>, sections |-> sections, ok |-> TRUE,
     section_nodes |-> EmptyDict, stack |-> <<>>, current_chapter |-> <<>>,
     hashes |-> EmptyDict]

\* "First pass: create section nodes" and the XXII section
hts_sections(s) ==
    LET s1 == section_loop(s, s.sections, 1, "hts-")
    IN  IF s1.ok THEN special_section(s1, "hts-") ELSE s1

\* PopStack that leaves an entry of equal indent on the stack
RECURSIVE PopStackGreater(_, _)
PopStackGreater(stack, indent) ==
    IF stack # <<>> /\ stack[Len(stack)].indent > indent
    THEN PopStackGreater(DropLast(stack), indent)
    ELSE stack

\* PopStack with "if" in place of "while": at most one entry is popped
PopStackOnce(stack, indent) ==
    IF stack # <<>> /\ stack[Len(stack)].indent >= indent
    THEN DropLast(stack)
    ELSE stack

\* while stack and stack[-1][0] >= indent: stack.pop()
RECURSIVE PopStack(_, _)
PopStack(stack, indent) ==
    IF stack # <<>> /\ stack[Len(stack)].indent >= indent
    THEN PopStack(DropLast(stack), indent)
    ELSE stack

\* node_id = f'hts-{clean_code}' if clean_code else
\*           f'hts-group-{len(stack)}-{hash(desc) % 100000}'
hts_node_id(clean_code, stack, h) ==
    IF clean_code # <<>> THEN <<"hts-">> \o clean_code
    ELSE <<"hts-", "group-">> \o IntStr(Len(stack)) \o <<"-">> \o IntStr(h)

\* One pass of "for item in raw"; h is hash(desc) % 100000.
hts_item(s, item, h) ==
    LET htsno      == item.htsno
        indent     == item.indent
        desc       == item.description
        clean_desc == RStripColon(desc)
        clean_code == Strip(htsno, ".")
        code_len   == Len(clean_code)
        node_type  == hts_node_type(code_len)
        chapter1   == IF code_len = 4 THEN Take(clean_code, 2) ELSE s.current_chapter
        me         == Len(s.heap) + 1
        canHave    == item.superior \/ node_type \in {"heading", "subheading", "group"}
        node       == Node(hts_node_id(clean_code, s.stack, h), htsno, clean_desc,
                           node_type, canHave)
        heap1      == Append(s.heap, node)
        stack1     == PopStack(s.stack, indent)
        chapter2   == IF stack1 = <<>> /\ chapter1 = <<>> /\ code_len >= 2
                      THEN Take(clean_code, 2) ELSE chapter1
        section    == chapter_to_section_get(IF chapter2 # <<>> THEN chapter2
                                             ELSE Take(clean_code, 2))
        heap2      == IF stack1 # <<>>
                      THEN AppendChild(heap1, stack1[Len(stack1)].node, me)
                      ELSE IF Has(s.section_nodes, section)
                      THEN AppendChild(heap1, Get(s.section_nodes, section), me)
                      ELSE heap1
    IN  IF desc = <<>> THEN s
        ELSE [s EXCEPT
                !.heap = heap2,
                !.current_chapter = chapter2,
                !.stack = IF canHave
                          THEN Append(stack1, [indent |-> indent, node |-> me])
                          ELSE stack1,
                !.hashes = IF clean_code = <<>> THEN Put(@, desc, h) ELSE @]

\* def add_to_lookup(nodes, section='', section_name='') of generate_hts
RECURSIVE hts_add_to_lookup(_, _, _, _, _)
hts_add_to_lookup(heap, nodes, section, section_name, lookup) ==
    IF nodes = <<>> THEN lookup
    ELSE LET node == heap[Head(nodes)]
             sec  == IF node.type = "section" THEN node.code ELSE section
             sn   == IF node.type = "section" THEN node.name ELSE section_name
             l1   == IF node.code # <<>> /\ node.type # "section"
                     THEN Put(lookup, node.code,
                              [code |-> node.code, description |-> node.name,
                               section |-> sec, sectionName |-> sn,
                               level |-> Len(Strip(node.code, ".")),
                               type |-> node.type])
                     ELSE lookup
             l2   == IF node.hasChildren
                     THEN hts_add_to_lookup(heap, node.children, sec, sn, l1)
                     ELSE l1
         IN  hts_add_to_lookup(heap, Tail(nodes), sec, sn, l2)

\* clean_tree(tree), add_to_lookup(tree), and the two write_json calls.
hts_finish(s, fs) ==
    LET s1 == [s EXCEPT !.heap = clean_tree(s.heap, s.tree)]
    IN  [st |-> s1,
         files |-> write_json(write_json(fs, "hts-tree.json", TreeDoc(s1.heap, s1.tree)),
                              "hts-lookup.json",
                              hts_add_to_lookup(s1.heap, s1.tree, <<>>, <<>>, EmptyDict))]

\* The loop over raw with the hash function hashf (description -> value).
RECURSIVE hts_run(_, _, _)
hts_run(s, raw, hashf) ==
    IF raw = <<>> THEN s
    ELSE hts_run(hts_item(s, Head(raw),
                          IF Head(raw).description \in DOMAIN hashf
                          THEN hashf[Head(raw).description] ELSE 0),
                 Tail(raw), hashf)

\* generate_hts() on the section table and the items raw; a run that raises
\* writes nothing.
generate_hts(sections, raw, hashf, fs) ==
    LET s0 == hts_sections(hts_locals(sections))
    IN  IF s0.ok THEN hts_finish(hts_run(s0, raw, hashf), fs).files ELSE fs

\* Items of hts-2026.json the runs are drawn from (description apart): a
\* heading, a group without a number, a subheading, a tariff line with and
\* without the 'superior' flag, a statistical line, a chapter-98 heading and
\* an item without description.
HtsItems ==
    { [htsno |-> <<"0", "1", "0", "1">>, indent |-> 0, superior |-> FALSE, kind |-> "coded"],
      [htsno |-> <<>>, indent |-> 1, superior |-> FALSE, kind |-> "group"],
      [htsno |-> <<"0", "1", "0", "1", ".", "2", "1">>, indent |-> 1, superior |-> FALSE,
       kind |-> "coded"],
      [htsno |-> <<"0", "1", "0", "1", ".", "2", "1", ".", "0", "0">>, indent |-> 2,
       superior |-> FALSE, kind |-> "coded"],
      [htsno |-> <<"0", "1", "0", "1", ".", "2", "1", ".", "0", "0">>, indent |-> 2,
       superior |-> TRUE, kind |-> "coded"],
      [htsno |-> <<"0", "1", "0", "1", ".", "2", "1", ".", "0", "0", ".", "1", "0">>,
       indent |-> 3, superior |-> FALSE, kind |-> "coded"],
      [htsno |-> <<"9", "8", "0", "1">>, indent |-> 0, superior |-> FALSE, kind |-> "coded"],
      [htsno |-> <<>>, indent |-> 0, superior |-> FALSE, kind |-> "blank"] }

\* Indents of a run that explores every indent sequence.
Indents == 0..2

\* Container-capable items of such a run: a heading or a group without number.
HtsContainerItems ==
    { [htsno |-> h, indent |-> i, superior |-> FALSE,
       kind |-> IF h = <<>> THEN "group" ELSE "coded"] :
        h \in { <<"0", "1", "0", "1">>, <<>> }, i \in Indents }

\* Section tables of such a run: one with section I and one without.
IndentSectionTables ==
    { t \in SectionTables : t.keys = <<I_, II_>> \/ t = EmptyDict }

\* The description of the k-th item: groups without number are all "a:".
HtsDescription(kind, k) ==
    CASE kind = "blank" -> <<>>
      [] kind = "group" -> <<"a", ":">>
      [] OTHER          -> RowTitle(k)

HtsSections ==
    /\ gen = "hts" /\ pc = "sections"
    /\ st' = hts_sections(st)
    /\ pc' = IF st'.ok THEN "rows" ELSE "crashed"
    /\ UNCHANGED <<gen, rows, files>>

\* The next item of raw, drawn from items, in a file of at most n items.
HtsNext(items, n) ==
    /\ gen = "hts" /\ pc = "rows" /\ Len(rows) < n
    /\ \E r \in items, h \in 0..(HashValues - 1) :
          LET item == [htsno |-> r.htsno, indent |-> r.indent, superior |-> r.superior,
                       description |-> HtsDescription(r.kind, Len(rows) + 1)]
          IN  /\ Has(st.hashes, item.description) => h = Get(st.hashes, item.description)
              /\ rows' = Append(rows, item)
              /\ st' = hts_item(st, item, h)
    /\ UNCHANGED <<gen, pc, files>>

HtsItem == HtsNext(HtsItems, MaxRows)

HtsIndentItem == HtsNext(HtsContainerItems, MaxIndentRows)

HtsWrite ==
    /\ gen = "hts" /\ pc = "rows"
    /\ LET r == hts_finish(st, files)
       IN  st' = r.st /\ files' = r.files
    /\ pc' = "done"
    /\ UNCHANGED <<gen, rows>>

InitHts ==
    /\ gen = "hts" /\ pc = "sections" /\ rows = <<>> /\ files = NoFiles
    /\ \E sections \in SectionTables : st = hts_locals(sections)

NextHts == HtsSections \/ HtsItem \/ HtsWrite

SpecHts == InitHts /\ [][NextHts]_vars

InitHtsIndent ==
    /\ gen = "hts" /\ pc = "sections" /\ rows = <<>> /\ files = NoFiles
    /\ \E sections \in IndentSectionTables : st = hts_locals(sections)

NextHtsIndent == HtsSections \/ HtsIndentItem \/ HtsWrite

SpecHtsIndent == InitHtsIndent /\ [][NextHtsIndent]_vars

\* ------------------------------------------------------------------------
\* 5. generate_canadian
\* ------------------------------------------------------------------------
\* s.split('.')
RECURSIVE SplitDot(_, _)
SplitDot(s, run) ==
    IF s = <<>> THEN <<run>>
    ELSE IF Head(s) = "." THEN <<run>> \o SplitDot(Tail(s), <<>>)
         ELSE SplitDot(Tail(s), Append(run, Head(s)))

\* re.match(r'^\d{a}\.\d{b}...$', s) for the digit-group widths given
MatchesDotted(s, widths) ==
    LET f == SplitDot(s, <<>>)
    IN  /\ Len(f) = Len(widths)
        /\ \A i \in 1..Len(f) : Len(f[i]) = widths[i] /\ AllDigits(f[i])

\* The TARIFF values the rows are drawn from, in the order of "ORDER BY TARIFF".
CaTariffs ==
    << <<"0", "1">>,
       <<"0", "1", ".", "0", "1">>,
       <<"0", "1", "0", "1", ".", "2">>,
       <<"0", "1", "0", "1", ".", "2", "1", ".", "0", "0">>,
       <<"0", "1", "0", "1", ".", "2", "1", ".", "0", "0", ".", "0", "0">>,
       <<"0", "1", "0", "1", ".", "3", "0", ".", "0", "0">>,
       <<"0", "2", "0", "1", ".", "1", "0", ".", "0", "0">>,
       <<"9", "8", ".", "0", "1">> >>

ca_locals(sections) ==
    [heap |-> <<>>, tree |-> <<>>, sections |-> sections, ok |-> TRUE,
     section_nodes |-> EmptyDict, chapter_nodes_map |-> EmptyDict,
     heading_nodes_map |-> EmptyDict, subheading_nodes_map |-> EmptyDict,
     tariff8_nodes_map |-> EmptyDict]

\* "Create section nodes" and the special section for chapters 98-99
ca_sections(s) ==
    LET s1 == section_loop(s, s.sections, 1, "ca-")
    IN  IF s1.ok THEN special_section(s1, "ca-") ELSE s1

\* for gcode in sorted(subheading_nodes_map.keys(), key=len, reverse=True):
\*     if code_6.startswith(gcode): ... break
\* The position of the key found, 0 when there is none: the longest matching
\* key, the earliest inserted among equally long ones (sorted is stable).
ca_group_parent(keys, code_6) ==
    LET cand == { i \in 1..Len(keys) : StartsWith(code_6, keys[i]) }
    IN  IF cand = {} THEN 0
        ELSE CHOOSE i \in cand :
               \A j \in cand : \/ Len(keys[j]) < Len(keys[i])
                               \/ (Len(keys[j]) = Len(keys[i]) /\ i <= j)

\* The heading branch: the chapter node is created on its first heading.
ca_heading(s, tariff, desc, clean) ==
    LET me      == Len(s.heap) + 1
        heap1   == Append(s.heap, Node(<<"ca-">> \o clean, tariff, desc, "heading", TRUE))
        chapter == Take(clean, 2)
        section == chapter_to_section_get(chapter)
        isNew   == ~Has(s.chapter_nodes_map, chapter)
        ch      == me + 1
        heap2   == IF isNew
                   THEN Append(heap1, Node(<<"ca-">> \o chapter, chapter,
                                           <<"Chapter ">> \o chapter, "chapter", TRUE))
                   ELSE heap1
        heap3   == IF isNew /\ Has(s.section_nodes, section)
                   THEN AppendChild(heap2, Get(s.section_nodes, section), ch)
                   ELSE heap2
        chmap   == IF isNew THEN Put(s.chapter_nodes_map, chapter, ch)
                   ELSE s.chapter_nodes_map
    IN  [s EXCEPT !.heading_nodes_map = Put(@, clean, me),
                  !.chapter_nodes_map = chmap,
                  !.heap = AppendChild(heap3, Get(chmap, chapter), me)]

\* One pass of "for row in rows".
ca_row(s, row) ==
    LET tariff == row.tariff
        desc   == row.description
        clean  == Strip(tariff, ".")
        me     == Len(s.heap) + 1
    IN  CASE MatchesDotted(tariff, <<2, 2>>) -> ca_heading(s, tariff, desc, clean)
          [] MatchesDotted(tariff, <<4, 1>>) ->
               LET heading == Take(clean, 4)
                   h1 == Append(s.heap, Node(<<"ca-", "group-">> \o clean, tariff, desc,
                                             "group", TRUE))
               IN  [s EXCEPT
                      !.heap = IF Has(s.heading_nodes_map, heading)
                               THEN AppendChild(h1, Get(s.heading_nodes_map, heading), me)
                               ELSE h1,
                      !.subheading_nodes_map = Put(@, clean, me)]
          [] MatchesDotted(tariff, <<4, 2, 2>>) ->
               LET code_6 == Take(clean, 6)
                   h1 == Append(s.heap, Node(<<"ca-">> \o clean, tariff, desc,
                                             "subheading", TRUE))
                   g  == ca_group_parent(s.subheading_nodes_map.keys, code_6)
                   heading == Take(clean, 4)
               IN  [s EXCEPT
                      !.tariff8_nodes_map = Put(@, clean, me),
                      !.heap = IF g # 0
                               THEN AppendChild(h1, s.subheading_nodes_map.val[g], me)
                               ELSE IF Has(s.heading_nodes_map, heading)
                               THEN AppendChild(h1, Get(s.heading_nodes_map, heading), me)
                               ELSE h1]
          [] MatchesDotted(tariff, <<4, 2, 2, 2>>) ->
               LET code_8 == Take(clean, 8)
                   h1 == Append(s.heap, Node(<<"ca-">> \o clean, tariff, desc,
                                             "tariff_item", FALSE))
               IN  [s EXCEPT
                      !.heap = IF Has(s.tariff8_nodes_map, code_8)
                               THEN AppendChild(h1, Get(s.tariff8_nodes_map, code_8), me)
                               ELSE h1]
          [] OTHER -> s

\* def add_to_lookup(nodes, section='', section_name='') of generate_canadian
RECURSIVE ca_add_to_lookup(_, _, _, _, _)
ca_add_to_lookup(heap, nodes, section, section_name, lookup) ==
    IF nodes = <<>> THEN lookup
    ELSE LET node == heap[Head(nodes)]
             sec  == IF node.type = "section" THEN node.code ELSE section
             sn   == IF node.type = "section" THEN node.name ELSE section_name
             l1   == IF node.code # <<>> /\ node.type # "section"
                     THEN Put(lookup, node.code,
                              [code |-> node.code, description |-> node.name,
                               section |-> sec, sectionName |-> sn,
                               level |-> Len(Strip(node.code, ".")),
                               type |-> node.type])
                     ELSE lookup
             l2   == IF node.hasChildren
                     THEN ca_add_to_lookup(heap, node.children, sec, sn, l1)
                     ELSE l1
         IN  ca_add_to_lookup(heap, Tail(nodes), sec, sn, l2)

\* clean_tree(tree), add_to_lookup(tree), and the two write_json calls.
ca_finish(s, fs) ==
    LET s1 == [s EXCEPT !.heap = clean_tree(s.heap, s.tree)]
    IN  [st |-> s1,
         files |-> write_json(write_json(fs, "ca-tree.json", TreeDoc(s1.heap, s1.tree)),
                              "ca-lookup.json",
                              ca_add_to_lookup(s1.heap, s1.tree, <<>>, <<>>, EmptyDict))]

\* "import pyodbc" failing: the generator returns before reading anything.
CaImportError ==
    /\ gen = "ca" /\ pc = "import" /\ ~st.ok
    /\ pc' = "aborted"
    /\ UNCHANGED <<gen, rows, st, files>>

CaSections ==
    /\ gen = "ca" /\ pc = "import" /\ st.ok
    /\ st' = ca_sections(st)
    /\ pc' = IF st'.ok THEN "rows" ELSE "crashed"
    /\ UNCHANGED <<gen, rows, files>>

\* The k-th row fetched: rows come in TARIFF order.
CaRow ==
    /\ gen = "ca" /\ pc = "rows" /\ Len(rows) < MaxRows
    /\ \E t \in 1..Len(CaTariffs) :
          LET row == [tariff |-> CaTariffs[t], pos |-> t,
                      description |-> RowTitle(Len(rows) + 1)]
          IN  /\ rows # <<>> => rows[Len(rows)].pos <= t
              /\ rows' = Append(rows, row)
              /\ st' = ca_row(st, row)
    /\ UNCHANGED <<gen, pc, files>>

CaWrite ==
    /\ gen = "ca" /\ pc = "rows"
    /\ LET r == ca_finish(st, files)
       IN  st' = r.st /\ files' = r.files
    /\ pc' = "done"
    /\ UNCHANGED <<gen, rows>>

InitCa ==
    /\ gen = "ca" /\ pc = "import" /\ rows = <<>> /\ files = NoFiles
    /\ \E sections \in SectionTables, installed \in BOOLEAN :
          st = [ca_locals(sections) EXCEPT !.ok = installed]

NextCa == CaImportError \/ CaSections \/ CaRow \/ CaWrite

SpecCa == InitCa /\ [][NextCa]_vars

\* ------------------------------------------------------------------------
\* 7. generate_unspsc
\* ------------------------------------------------------------------------
\* a < b for two strings of digits (Python's string order)
RECURSIVE LexLess(_, _)
LexLess(a, b) ==
    IF b = <<>> THEN FALSE
    ELSE IF a = <<>> THEN TRUE
    ELSE IF Head(a) = Head(b) THEN LexLess(Tail(a), Tail(b))
    ELSE DigitVal(Head(a)) < DigitVal(Head(b))

\* sorted(S) for a set of strings
RECURSIVE Sorted(_)
Sorted(S) ==
    IF S = {} THEN <<>>
    ELSE LET m == CHOOSE x \in S : \A y \in S \ {x} : LexLess(x, y)
         IN  <<m>> \o Sorted(S \ {m})

Pad8(s) == s \o [i \in 1..(8 - Len(s)) |-> "0"]

\* Rows of unspsc-codes.csv the runs are drawn from (names apart): the
\* Segment, Family, Class and Commodity columns.
UnspscRows ==
    { [seg |-> Pad8(<<"1", "0">>), fam |-> Pad8(<<"1", "0", "1", "0">>),
       cls |-> Pad8(<<"1", "0", "1", "0", "1", "5">>),
       com |-> <<"1", "0", "1", "0", "1", "5", "0", "1">>],
      [seg |-> Pad8(<<"1", "0">>), fam |-> Pad8(<<"1", "0", "1", "0">>),
       cls |-> Pad8(<<"1", "0", "1", "0", "1", "5">>),
       com |-> <<"1", "0", "1", "0", "1", "5", "0", "2">>],
      [seg |-> <<>>, fam |-> Pad8(<<"2", "0", "1", "0">>),
       cls |-> Pad8(<<"2", "0", "1", "0", "1", "5">>),
       com |-> <<"2", "0", "1", "0", "1", "5", "0", "1">>],
      [seg |-> Pad8(<<"1", "0">>), fam |-> <<>>,
       cls |-> Pad8(<<"1", "0", "1", "0", "1", "6">>),
       com |-> <<"1", "0", "1", "0", "1", "6", "0", "1">>],
      [seg |-> <<"1", "0">>, fam |-> <<"1", "0">>, cls |-> <<"1", "0">>,
       com |-> <<"1", "0">>],
      [seg |-> <<"1", "0">>, fam |-> <<"1", "0">>, cls |-> <<"1", "0">>,
       com |-> <<"1", "0", "1", "0", "1", "5", "0", "1">>] }

unspsc_locals ==
    [heap |-> <<>>, tree |-> <<>>, nodes_by_code |-> EmptyDict,
     segments |-> EmptyDict, families |-> EmptyDict, classes |-> EmptyDict,
     commodities |-> EmptyDict, ok |-> TRUE]

\* One pass of "for row in reader": the four dicts code -> name.
unspsc_read(s, row) ==
    [s EXCEPT
       !.segments    = IF row.seg # <<>> /\ row.seg_name # <<>>
                       THEN Put(@, Take(row.seg, 2), row.seg_name) ELSE @,
       !.families    = IF row.fam # <<>> /\ row.fam_name # <<>>
                       THEN Put(@, Take(row.fam, 4), row.fam_name) ELSE @,
       !.classes     = IF row.cls # <<>> /\ row.cls_name # <<>>
                       THEN Put(@, Take(row.cls, 6), row.cls_name) ELSE @,
       !.commodities = IF row.com # <<>> /\ row.com_name # <<>>
                       THEN Put(@, Take(row.com, 8), row.com_name) ELSE @]

\* "for code in sorted(d)" of one level: a node per code, registered in
\* nodes_by_code before its parent code[:width] is looked up there; segments
\* (width 0) go to the tree instead.  nodes_by_code[parent_code]['children']
\* raises KeyError when the node registered under parent_code is a commodity,
\* which has no 'children': ok is FALSE and the generator stops there.
RECURSIVE unspsc_level(_, _, _, _, _, _)
unspsc_level(s, codes, d, width, type, hasChildren) ==
    IF codes = <<>> \/ ~s.ok THEN s
    ELSE LET code == Head(codes)
             me   == Len(s.heap) + 1
             h1   == Append(s.heap, Node(<<"unspsc-">> \o code, code, Get(d, code),
                                         type, hasChildren))
             nbc  == Put(s.nodes_by_code, code, me)
             parent_code == Take(code, width)
             s1   == IF width = 0
                     THEN [s EXCEPT !.heap = h1, !.nodes_by_code = nbc,
                                    !.tree = Append(@, me)]
                     ELSE IF ~Has(nbc, parent_code)
                     THEN [s EXCEPT !.heap = h1, !.nodes_by_code = nbc]
                     ELSE IF h1[Get(nbc, parent_code)].hasChildren
                     THEN [s EXCEPT !.heap = AppendChild(h1, Get(nbc, parent_code), me),
                                    !.nodes_by_code = nbc]
                     ELSE [s EXCEPT !.heap = h1, !.nodes_by_code = nbc, !.ok = FALSE]
         IN  unspsc_level(s1, Tail(codes), d, width, type, hasChildren)

\* "Build tree top-down": segments, families, classes, commodities
unspsc_tree(s) ==
    LET s1 == unspsc_level(s, Sorted(Keys(s.segments)), s.segments, 0, "segment", TRUE)
        s2 == unspsc_level(s1, Sorted(Keys(s.families)), s.families, 2, "family", TRUE)
        s3 == unspsc_level(s2, Sorted(Keys(s.classes)), s.classes, 4, "class", TRUE)
    IN  unspsc_level(s3, Sorted(Keys(s.commodities)), s.commodities, 6, "commodity",
                     FALSE)

\* all_codes.update({c: (d[c], type) for c in d})
RECURSIVE unspsc_update(_, _, _, _)
unspsc_update(all_codes, d, k, type) ==
    IF k > Len(d.keys) THEN all_codes
    ELSE unspsc_update(Put(all_codes, d.keys[k], [name |-> d.val[k], type |-> type]),
                       d, k + 1, type)

unspsc_all_codes(s) ==
    unspsc_update(
      unspsc_update(
        unspsc_update(
          unspsc_update(EmptyDict, s.segments, 1, "segment"),
          s.families, 1, "family"),
        s.classes, 1, "class"),
      s.commodities, 1, "commodity")

\* "for code, (name, type_name) in all_codes.items()"
RECURSIVE unspsc_lookup(_, _, _, _)
unspsc_lookup(s, all_codes, k, lookup) ==
    IF k > Len(all_codes.keys) THEN lookup
    ELSE LET code == all_codes.keys[k]
             seg_code == Take(code, 2)
         IN  unspsc_lookup(s, all_codes, k + 1,
                Put(lookup, code,
                    [code |-> code, description |-> all_codes.val[k].name,
                     section |-> seg_code,
                     sectionName |-> IF Has(s.segments, seg_code)
                                     THEN Get(s.segments, seg_code) ELSE <<>>,
                     level |-> Len(code), type |-> all_codes.val[k].type]))

\* The tree, clean_tree(tree), the lookup, and the two write_json calls;
\* nothing is written when the tree building raised.
unspsc_finish(s, fs) ==
    LET s1 == unspsc_tree(s)
        s2 == [s1 EXCEPT !.heap = clean_tree(s1.heap, s1.tree)]
    IN  IF ~s1.ok THEN [st |-> s1, files |-> fs]
        ELSE
        [st |-> s2,
         files |-> write_json(write_json(fs, "unspsc-tree.json",
                                         TreeDoc(s2.heap, s2.tree)),
                              "unspsc-lookup.json",
                              unspsc_lookup(s2, unspsc_all_codes(s2), 1, EmptyDict))]

RECURSIVE unspsc_run(_, _)
unspsc_run(s, reader) ==
    IF reader = <<>> THEN s
    ELSE unspsc_run(unspsc_read(s, Head(reader)), Tail(reader))

\* generate_unspsc() on the rows reader
generate_unspsc(reader, fs) == unspsc_finish(unspsc_run(unspsc_locals, reader), fs).files

UnspscRow ==
    /\ gen = "unspsc" /\ pc = "rows" /\ Len(rows) < MaxRows
    /\ \E r \in UnspscRows :
          LET n   == RowTitle(Len(rows) + 1)
              row == [seg |-> r.seg, fam |-> r.fam, cls |-> r.cls, com |-> r.com,
                      seg_name |-> n, fam_name |-> n, cls_name |-> n, com_name |-> n]
          IN  /\ rows' = Append(rows, row)
              /\ st' = unspsc_read(st, row)
    /\ UNCHANGED <<gen, pc, files>>

UnspscWrite ==
    /\ gen = "unspsc" /\ pc = "rows"
    /\ LET r == unspsc_finish(st, files)
       IN  st' = r.st /\ files' = r.files
    /\ pc' = IF st'.ok THEN "done" ELSE "crashed"
    /\ UNCHANGED <<gen, rows>>

InitUnspsc ==
    /\ gen = "unspsc" /\ pc = "rows" /\ rows = <<>> /\ files = NoFiles
    /\ st = unspsc_locals

NextUnspsc == UnspscRow \/ UnspscWrite

SpecUnspsc == InitUnspsc /\ [][NextUnspsc]_vars

\* ------------------------------------------------------------------------
\* 6. generate_concordance
\* ------------------------------------------------------------------------
\* Rows of CPC21-HS2017.csv the runs are drawn from: two spellings of one HS
\* code and a second HS code, two CPC codes, and the partial columns.
ConcordanceRows ==
    { [hs |-> h, hsPartial |-> f[1], cpc |-> c, cpcPartial |-> f[2]] :
        h \in { <<"0", "1", "0", "1", ".", "2", "1">>, <<"0", "1", "0", "1", "2", "1">>,
                <<"0", "1", "0", "1", ".", "2", "9">> },
        c \in { <<"0", "1">>, <<"0", "2">> },
        f \in { <<"0", "0">>, <<"1", "0">>, <<"0", "1">> } }

concordance_locals == [hs_to_cpc |-> EmptyDict, cpc_to_hs |-> EmptyDict]

\* an append that leaves out a value the list already holds
AppendToOnce(d, k, v) ==
    IF Has(d, k) /\ v \in Range(Get(d, k)) THEN d
    ELSE Put(d, k, IF Has(d, k) THEN Append(Get(d, k), v) ELSE <<v>>)

\* d.setdefault(k, []).append(v)
AppendTo(d, k, v) == Put(d, k, IF Has(d, k) THEN Append(Get(d, k), v) ELSE <<v>>)

\* concordance_row that keeps the dots of the HS code
concordance_row_dotted(s, row) ==
    LET hs_partial  == row.hsPartial = "1"
        cpc_partial == row.cpcPartial = "1"
    IN  [s EXCEPT
           !.hs_to_cpc = AppendTo(@, row.hs,
                                  [hsPartial |-> hs_partial, cpcPartial |-> cpc_partial,
                                   code |-> row.cpc]),
           !.cpc_to_hs = AppendTo(@, row.cpc,
                                  [hsPartial |-> hs_partial, cpcPartial |-> cpc_partial,
                                   code |-> row.hs])]

\* One pass of "for row in reader".
concordance_row(s, row) ==
    LET hs_partial  == row.hsPartial = "1"
        cpc_partial == row.cpcPartial = "1"
        hs_code     == Strip(row.hs, ".")
    IN  [s EXCEPT
           !.hs_to_cpc = AppendTo(@, hs_code,
                                  [hsPartial |-> hs_partial, cpcPartial |-> cpc_partial,
                                   code |-> row.cpc]),
           !.cpc_to_hs = AppendTo(@, row.cpc,
                                  [hsPartial |-> hs_partial, cpcPartial |-> cpc_partial,
                                   code |-> hs_code])]

\* mapping_info[prefix + code] = {'count': ..., 'type': ...} for every key of d
RECURSIVE mapping_info_of(_, _, _, _)
mapping_info_of(info, d, k, prefix) ==
    IF k > Len(d.keys) THEN info
    ELSE LET count == Len(d.val[k])
         IN  mapping_info_of(
               Put(info, <<prefix>> \o d.keys[k],
                   [count |-> count, type |-> IF count = 1 THEN "1:1" ELSE "1:N"]),
               d, k + 1, prefix)

\* "Build mappingInfo" and write_json('concordance.json', ...)
concordance_finish(s, fs) ==
    write_json(fs, "concordance.json",
               [hsToCpc |-> s.hs_to_cpc, cpcToHs |-> s.cpc_to_hs,
                mappingInfo |-> mapping_info_of(
                                  mapping_info_of(EmptyDict, s.hs_to_cpc, 1, "hs-"),
                                  s.cpc_to_hs, 1, "cpc-")])

RECURSIVE concordance_run(_, _)
concordance_run(s, reader) ==
    IF reader = <<>> THEN s
    ELSE concordance_run(concordance_row(s, Head(reader)), Tail(reader))

\* generate_concordance() on the rows reader of an existing CPC21-HS2017.csv
generate_concordance(reader, fs) ==
    concordance_finish(concordance_run(concordance_locals, reader), fs)

\* "if not os.path.exists(csv_path)": the empty concordance is written.
ConcordanceMissing ==
    /\ gen = "concordance" /\ pc = "start" /\ ~st.exists
    /\ files' = write_json(files, "concordance.json",
                           [hsToCpc |-> EmptyDict, cpcToHs |-> EmptyDict,
                            mappingInfo |-> EmptyDict])
    /\ pc' = "done"
    /\ UNCHANGED <<gen, rows, st>>

ConcordanceRow ==
    /\ gen = "concordance" /\ pc = "start" /\ st.exists /\ Len(rows) < MaxPairs
    /\ \E row \in ConcordanceRows :
          /\ rows' = Append(rows, row)
          /\ st' = concordance_row(st, row)
    /\ UNCHANGED <<gen, pc, files>>

ConcordanceWrite ==
    /\ gen = "concordance" /\ pc = "start" /\ st.exists
    /\ files' = concordance_finish(st, files)
    /\ pc' = "done"
    /\ UNCHANGED <<gen, rows, st>>

InitConcordance ==
    /\ gen = "concordance" /\ pc = "start" /\ rows = <<>> /\ files = NoFiles
    /\ \E exists \in BOOLEAN :
          st = [hs_to_cpc |-> EmptyDict, cpc_to_hs |-> EmptyDict, exists |-> exists]

NextConcordance == ConcordanceMissing \/ ConcordanceRow \/ ConcordanceWrite

SpecConcordance == InitConcordance /\ [][NextConcordance]_vars

\* ------------------------------------------------------------------------
\* 8. generate_unspsc_hs_fuzzy_mapping
\* ------------------------------------------------------------------------
STOP_WORDS ==
    { <<"a">>,
      <<"a", "n">>,
      <<"a", "n", "d">>,
      <<"o", "r">>,
      <<"t", "h", "e">>,
      <<"o", "f">>,
      <<"f", "o", "r">>,
      <<"t", "o">>,
      <<"i", "n">>,
      <<"o", "n">>,
      <<"w", "i", "t", "h">>,
      <<"b", "y">>,
      <<"f", "r", "o", "m">>,
      <<"n", "o", "t">>,
      <<"n", "o", "r">>,
      <<"b", "u", "t">>,
      <<"a", "t">>,
      <<"a", "s">>,
      <<"i", "s">>,
      <<"a", "r", "e">>,
      <<"w", "a", "s">>,
      <<"b", "e">>,
      <<"b", "e", "e", "n">>,
      <<"b", "e", "i", "n", "g">>,
      <<"h", "a", "v", "e">>,
      <<"h", "a", "s">>,
      <<"h", "a", "d">>,
      <<"d", "o">>,
      <<"d", "o", "e", "s">>,
      <<"d", "i", "d">>,
      <<"o", "t", "h", "e", "r">>,
      <<"t", "h", "a", "n">>,
      <<"i", "t", "s">>,
      <<"i", "t">>,
      <<"t", "h", "e", "i", "r">>,
      <<"t", "h", "i", "s">>,
      <<"t", "h", "a", "t">>,
      <<"t", "h", "e", "s", "e">>,
      <<"t", "h", "o", "s", "e">>,
      <<"s", "u", "c", "h">>,
      <<"i", "n", "c", "l", "u", "d", "i", "n", "g">>,
      <<"w", "h", "e", "t", "h", "e", "r">>,
      <<"a", "l", "s", "o">>,
      <<"e", "t", "c">>,
      <<"n", "e", "s">>,
      <<"n", "e", "s", "o", "i">> }

THRESHOLD_NUM == 3

THRESHOLD_DEN == 10

TOP_N == 3

\* \w : a letter, a digit or the underscore
IsWordChar(c) == IsCased(c) \/ c \in Digit \/ c = "_"

\* text.lower(), then re.sub(r'[^\w\s]', ' ', text)
RECURSIVE Normalise(_)
Normalise(text) ==
    IF text = <<>> THEN <<>>
    ELSE LET c == Lower(Head(text))
         IN  <<IF IsWordChar(c) \/ c = " " THEN c ELSE " ">> \o Normalise(Tail(text))

\* def preprocess(text): the set of words that are no stop words and longer
\* than two characters
preprocess(text) ==
    { w \in Range(Fields(Normalise(text), <<>>)) : w \notin STOP_WORDS /\ Len(w) > 2 }

\* jaccard with the two sizes added up in place of the size of the union
jaccard_sum_of_sizes(set1, set2) ==
    IF set1 = {} \/ set2 = {} THEN [num |-> 0, den |-> 1]
    ELSE LET intersection == Cardinality(set1 \cap set2)
             union == Cardinality(set1) + Cardinality(set2)
         IN  IF union > 0 THEN [num |-> intersection, den |-> union]
             ELSE [num |-> 0, den |-> 1]

\* def jaccard(set1, set2), as the fraction num / den (0.0 is 0 / 1)
jaccard(set1, set2) ==
    IF set1 = {} \/ set2 = {} THEN [num |-> 0, den |-> 1]
    ELSE LET intersection == Cardinality(set1 \cap set2)
             union == Cardinality(set1 \cup set2)
         IN  IF union > 0 THEN [num |-> intersection, den |-> union]
             ELSE [num |-> 0, den |-> 1]

\* the threshold test that accepts every pair with a common word
AnyOverlap(sim) == sim.num > 0

\* sim >= THRESHOLD
AtLeastThreshold(sim) == sim.num * THRESHOLD_DEN >= THRESHOLD_NUM * sim.den

\* round(sim, 3), in thousandths.  A tie (possible only from a union of 16
\* words on) goes to the even neighbour.
Round3(sim) ==
    LET twice == 2000 * sim.num
        q == twice \div (2 * sim.den)
        r == twice % (2 * sim.den)
    IN  IF r < sim.den THEN q
        ELSE IF r > sim.den THEN q + 1
        ELSE IF q % 2 = 0 THEN q ELSE q + 1

\* the insertion of a sort that puts a later equal similarity first
RECURSIVE InsertDescUnstable(_, _)
InsertDescUnstable(sorted, m) ==
    IF sorted = <<>> THEN <<m>>
    ELSE IF Head(sorted).similarity > m.similarity
         THEN <<Head(sorted)>> \o InsertDescUnstable(Tail(sorted), m)
         ELSE <<m>> \o sorted

\* list.sort(key=lambda x: x['similarity'], reverse=True): descending, equal
\* similarities keep their order.
RECURSIVE InsertDesc(_, _)
InsertDesc(sorted, m) ==
    IF sorted = <<>> THEN <<m>>
    ELSE IF Head(sorted).similarity >= m.similarity
         THEN <<Head(sorted)>> \o InsertDesc(Tail(sorted), m)
         ELSE <<m>> \o sorted

RECURSIVE SortDesc(_)
SortDesc(ms) ==
    IF ms = <<>> THEN <<>>
    ELSE InsertDesc(SortDesc(DropLast(ms)), ms[Len(ms)])

fuzzy_locals ==
    [hs_items |-> EmptyDict, unspsc_items |-> EmptyDict, hs_word_sets |-> EmptyDict,
     unspsc_to_hs |-> EmptyDict, hs_to_unspsc |-> EmptyDict, i |-> 0]

\* {code: entry['description'] for code, entry in lookup.items() if len(code) == n}
RECURSIVE ItemsOfLength(_, _, _)
ItemsOfLength(lookup, k, n) ==
    IF k > Len(lookup.keys) THEN EmptyDict
    ELSE LET rest == ItemsOfLength(lookup, k + 1, n)
         IN  IF Len(lookup.keys[k]) = n
             THEN [keys |-> <<lookup.keys[k]>> \o rest.keys,
                   val  |-> <<lookup.val[k].description>> \o rest.val]
             ELSE rest

\* The two lookups are read, and the HS word sets precomputed.
fuzzy_load(fs) ==
    LET hs_items == ItemsOfLength(fs["hs-lookup.json"], 1, 6)
    IN  [fuzzy_locals EXCEPT
           !.hs_items = hs_items,
           !.unspsc_items = ItemsOfLength(fs["unspsc-lookup.json"], 1, 8),
           !.hs_word_sets = [keys |-> hs_items.keys,
                             val |-> [k \in 1..Len(hs_items.keys) |->
                                        preprocess(hs_items.val[k])]]]

\* "for hs_code, hs_words in hs_word_sets.items()": the matches from the
\* k-th HS item on, in iteration order
RECURSIVE fuzzy_matches(_, _, _)
fuzzy_matches(hs_word_sets, unspsc_words, k) ==
    IF k > Len(hs_word_sets.keys) THEN <<>>
    ELSE LET sim == jaccard(unspsc_words, hs_word_sets.val[k])
         IN  (IF AtLeastThreshold(sim)
              THEN <<[code |-> hs_word_sets.keys[k], similarity |-> Round3(sim)]>>
              ELSE <<>>)
             \o fuzzy_matches(hs_word_sets, unspsc_words, k + 1)

\* "for m in top": the reverse entries of one UNSPSC code
RECURSIVE fuzzy_reverse(_, _, _)
fuzzy_reverse(hs_to_unspsc, top, unspsc_code) ==
    IF top = <<>> THEN hs_to_unspsc
    ELSE fuzzy_reverse(AppendTo(hs_to_unspsc, Head(top).code,
                                [code |-> unspsc_code,
                                 similarity |-> Head(top).similarity]),
                       Tail(top), unspsc_code)

\* One pass of "for i, (unspsc_code, unspsc_desc) in enumerate(...)".
fuzzy_item(s) ==
    LET k            == s.i + 1
        unspsc_code  == s.unspsc_items.keys[k]
        unspsc_words == preprocess(s.unspsc_items.val[k])
        matches      == fuzzy_matches(s.hs_word_sets, unspsc_words, 1)
        top          == Take(SortDesc(matches), TOP_N)
    IN  IF unspsc_words = {} \/ matches = <<>> THEN [s EXCEPT !.i = k]
        ELSE [s EXCEPT !.i = k,
                       !.unspsc_to_hs = Put(@, unspsc_code, top),
                       !.hs_to_unspsc = fuzzy_reverse(@, top, unspsc_code)]

\* the reverse lists left in the order of their appends
fuzzy_unsorted_reverse(hs_to_unspsc) == hs_to_unspsc

\* "Sort reverse mappings by similarity"
fuzzy_sort_reverse(hs_to_unspsc) ==
    [keys |-> hs_to_unspsc.keys,
     val  |-> [k \in 1..Len(hs_to_unspsc.keys) |-> SortDesc(hs_to_unspsc.val[k])]]

\* The reverse sort and write_json('unspsc-hs-mapping.json', ...)
fuzzy_finish(s, fs) ==
    LET s1 == [s EXCEPT !.hs_to_unspsc = fuzzy_sort_reverse(@)]
    IN  [st |-> s1,
         files |-> write_json(fs, "unspsc-hs-mapping.json",
                              [unspscToHs |-> s1.unspsc_to_hs,
                               hsToUnspsc |-> s1.hs_to_unspsc])]

DescHorsesAsses ==
    <<"H", "o", "r", "s", "e", "s", ",", " ", "a", "s", "s", "e", "s">>

DescHorses ==
    <<"H", "O", "R", "S", "E", "S">>

DescLiveHorses ==
    <<"L", "i", "v", "e", " ", "h", "o", "r", "s", "e", "s">>

DescMany ==
    <<"H", "o", "r", "s", "e", "s", " ", "a", "s", "s", "e", "s", " ", "m",
       "u", "l", "e", "s", " ", "h", "i", "n", "n", "i", "e", "s", " ", "c",
       "a", "t", "t", "l", "e", " ", "s", "h", "e", "e", "p", " ", "g", "o",
       "a", "t", "s", " ", "s", "w", "i", "n", "e", " ", "p", "o", "u", "l",
       "t", "r", "y", " ", "f", "i", "s", "h">>

DescOther ==
    <<"O", "t", "h", "e", "r", ",", " ", "N", "E", "S">>

\* Descriptions of the HS subheadings and of the UNSPSC commodities of a run.
HsFuzzyDescs == {DescHorsesAsses, DescHorses, DescMany, DescOther}

UnspscFuzzyDescs == {DescLiveHorses, DescHorses, DescOther}

SeqsUpTo(S, n) == UNION { [1..k -> S] : k \in 0..n }

\* hs-codes.csv of a run: a heading, then one subheading per description.
FuzzyHsRows(descs) ==
    << [level |-> "4", hscode |-> <<"0", "1", "0", "1">>, section |-> I_,
        parent |-> <<"0", "1">>, description |-> DescHorses] >>
    \o [k \in 1..Len(descs) |->
          [level |-> "6", hscode |-> <<"0", "1", "0", "1", "0", DigitStr[k + 1]>>,
           section |-> I_, parent |-> <<"0", "1", "0", "1">>,
           description |-> descs[k]]]

\* unspsc-codes.csv of a run: one commodity per description.
FuzzyUnspscRows(descs) ==
    [k \in 1..Len(descs) |->
       [seg |-> Pad8(<<"1", "0">>), fam |-> Pad8(<<"1", "0", "1", "0">>),
        cls |-> Pad8(<<"1", "0", "1", "0", "1", "5">>),
        com |-> <<"1", "0", "1", "0", "1", "5", "0", DigitStr[k + 1]>>,
        seg_name |-> DescLiveHorses, fam_name |-> DescLiveHorses,
        cls_name |-> DescLiveHorses, com_name |-> descs[k]]]

FuzzyLoad ==
    /\ gen = "fuzzy" /\ pc = "start"
    /\ st' = fuzzy_load(files)
    /\ pc' = "rows"
    /\ UNCHANGED <<gen, rows, files>>

FuzzyItem ==
    /\ gen = "fuzzy" /\ pc = "rows" /\ st.i < Len(st.unspsc_items.keys)
    /\ st' = fuzzy_item(st)
    /\ UNCHANGED <<gen, pc, rows, files>>

\* The file is written; the statistics printed after it divide by
\* len(unspsc_items).
FuzzyWrite ==
    /\ gen = "fuzzy" /\ pc = "rows" /\ st.i = Len(st.unspsc_items.keys)
    /\ LET r == fuzzy_finish(st, files)
       IN  st' = r.st /\ files' = r.files
    /\ pc' = IF Len(st.unspsc_items.keys) = 0 THEN "crashed" ELSE "done"
    /\ UNCHANGED <<gen, rows>>

\* generate_hs and generate_unspsc have run on the rows of the run.
InitFuzzy ==
    /\ gen = "fuzzy" /\ pc = "start" /\ st = fuzzy_locals
    /\ \E hs \in SeqsUpTo(HsFuzzyDescs, MaxTargets),
          un \in SeqsUpTo(UnspscFuzzyDescs, MaxSources) :
          /\ rows = [hs |-> FuzzyHsRows(hs), unspsc |-> FuzzyUnspscRows(un)]
          /\ files = generate_unspsc(rows.unspsc,
                        generate_hs(SectionTables1, rows.hs, NoFiles))

NextFuzzy == FuzzyLoad \/ FuzzyItem \/ FuzzyWrite

SpecFuzzy == InitFuzzy /\ [][NextFuzzy]_vars

\* ------------------------------------------------------------------------
\* Inputs of the composers: what generate_cpc, generate_hts and
\* generate_concordance wrote earlier in the run
\* ------------------------------------------------------------------------
CpcEntries(codes) ==
    [k \in 1..Len(codes) |-> [code |-> codes[k], title |-> RowTitle(k)]]

\* cpc-structure.txt of a composer run: a goods and a service section, and
\* under the goods section two leaves, one leaf twice, or a leaf below a leaf,
\* or one leaf and a division 61 whose section 6 is not in the file.
ComposerCpcInputs ==
    { CpcEntries(<< <<"0">>, <<"0", "1">>, x, <<"5">>, <<"5", "1">> >>) :
        x \in { <<"0", "2">>, <<"0", "1">>, <<"0", "1", "1">>, <<"6", "1">> } }

\* Items of hts-2026.json below the heading 0101 in a composer run.
ComposerHtsItems ==
    { [htsno |-> <<"0", "1", "0", "1", ".", "2", "1">>, indent |-> 1],
      [htsno |-> <<"0", "1", "0", "1", ".", "2", "1", ".", "0", "0">>, indent |-> 2],
      [htsno |-> <<"0", "1", "0", "1", ".", "2", "1", ".", "1", "0">>, indent |-> 2],
      [htsno |-> <<"0", "1", "0", "1", ".", "2", "1", ".", "2", "0">>, indent |-> 2],
      [htsno |-> <<"0", "1", "0", "1", ".", "2", "1", ".", "1", "0", ".", "1", "0">>,
       indent |-> 3] }

ComposerHtsRaw(items) ==
    [k \in 1..(Len(items) + 1) |->
       IF k = 1
       THEN [htsno |-> <<"0", "1", "0", "1">>, indent |-> 0, superior |-> FALSE,
             description |-> RowTitle(1)]
       ELSE [htsno |-> items[k - 1].htsno, indent |-> items[k - 1].indent,
             superior |-> FALSE, description |-> RowTitle(k)]]

ComposerHtsInputs ==
    { ComposerHtsRaw(items) : items \in SeqsUpTo(ComposerHtsItems, MaxDetailRows) }

\* Rows of CPC21-HS2017.csv of a composer run: HS 0101.21 against a CPC code.
ComposerConcordanceRows ==
    { [hs |-> <<"0", "1", "0", "1", ".", "2", "1">>, hsPartial |-> "0", cpc |-> c,
       cpcPartial |-> "0"] : c \in { <<"0", "1">>, <<"0", "2">>, <<"5", "1">> } }

NoHash == <<>>

\* hts-tree.json, hts-lookup.json, cpc-tree.json and cpc-lookup.json
ComposerFiles(cpc, hts) ==
    generate_hts(SectionTables1, hts, NoHash, generate_cpc(cpc, NoFiles))

\* ------------------------------------------------------------------------
\* 9. generate_taxonomy1
\* ------------------------------------------------------------------------
\* node['id'] = new_prefix + node['id'][len(old_prefix):] when the id starts
\* with old_prefix
Reprefix(id, old_prefix, new_prefix) ==
    IF StartsWith(id, old_prefix) THEN new_prefix \o Drop(id, Len(old_prefix)) ELSE id

\* def reprefix_node(node) / reprefix_node_inplace: the node and everything
\* below it, one node after the other
RECURSIVE reprefix_each(_, _, _, _)
reprefix_each(heap, order, old_prefix, new_prefix) ==
    IF order = <<>> THEN heap
    ELSE reprefix_each([heap EXCEPT ![Head(order)].id = Reprefix(@, old_prefix, new_prefix)],
                       Tail(order), old_prefix, new_prefix)

reprefix_nodes(heap, nodes, old_prefix, new_prefix) ==
    reprefix_each(heap, Walk(heap, nodes), old_prefix, new_prefix)

\* def reprefix_tree(nodes, old_prefix, new_prefix): a deep copy, re-prefixed
reprefix_tree(heap, nodes, old_prefix, new_prefix) ==
    LET c == CopyList(heap, nodes, heap)
    IN  [heap |-> reprefix_nodes(c.heap, c.refs, old_prefix, new_prefix),
         refs |-> c.refs]

\* the codes of all ten CPC sections
ALL_SECTIONS ==
    { <<"0">>, <<"1">>, <<"2">>, <<"3">>, <<"4">>, <<"5">>, <<"6">>, <<"7">>, <<"8">>,
      <<"9">> }

SERVICE_SECTIONS == { <<"5">>, <<"6">>, <<"7">>, <<"8">>, <<"9">> }

\* json.load of a tree document into the heap
LoadTree(heap, doc) == CopyList(doc.heap, doc.tree, heap)

\* {**entry, 'origin': origin}
WithOrigin(entry, origin) ==
    [code |-> entry.code, description |-> entry.description, section |-> entry.section,
     sectionName |-> entry.sectionName, level |-> entry.level, type |-> entry.type,
     origin |-> origin]

\* {**entry, 'origin': origin, 'originalCode': originalCode}
WithOriginalCode(entry, origin, originalCode) ==
    [code |-> entry.code, description |-> entry.description, section |-> entry.section,
     sectionName |-> entry.sectionName, level |-> entry.level, type |-> entry.type,
     origin |-> origin, originalCode |-> originalCode]

\* "for key, entry in lookup.items(): combined_lookup[key] = {**entry, origin}"
RECURSIVE add_origin(_, _, _, _)
add_origin(combined, lookup, k, origin) ==
    IF k > Len(lookup.keys) THEN combined
    ELSE add_origin(Put(combined, lookup.keys[k], WithOrigin(lookup.val[k], origin)),
                    lookup, k + 1, origin)

\* "CPC service entries: prefix keys with SVC"
RECURSIVE t1_add_services(_, _, _)
t1_add_services(combined, lookup, k) ==
    IF k > Len(lookup.keys) THEN combined
    ELSE LET key == lookup.keys[k]
             entry == lookup.val[k]
         IN  t1_add_services(
               IF entry.section \in SERVICE_SECTIONS
               THEN Put(combined, <<"SVC">> \o key, WithOriginalCode(entry, "cpc", key))
               ELSE combined,
               lookup, k + 1)

\* The trees and lookups written earlier are loaded.
t1_load(fs) ==
    LET hts == LoadTree(<<>>, fs["hts-tree.json"])
        cpc == LoadTree(hts.heap, fs["cpc-tree.json"])
    IN  [heap |-> cpc.heap, hts_tree |-> hts.refs, cpc_tree |-> cpc.refs,
         hts_lookup |-> fs["hts-lookup.json"], cpc_lookup |-> fs["cpc-lookup.json"],
         combined_tree |-> <<>>, combined_lookup |-> EmptyDict]

\* The combined tree and lookup, and the two write_json calls.
t1_finish(s, fs) ==
    LET t1_hts == reprefix_tree(s.heap, s.hts_tree, <<"hts-">>, <<"t1-">>)
        cpc_services == SelectSeq(s.cpc_tree,
                                  LAMBDA n : t1_hts.heap[n].code \in SERVICE_SECTIONS)
        t1_svc == reprefix_tree(t1_hts.heap, cpc_services, <<"cpc-">>, <<"t1-", "svc-">>)
        s1 == [s EXCEPT
                 !.heap = t1_svc.heap,
                 !.combined_tree = t1_hts.refs \o t1_svc.refs,
                 !.combined_lookup =
                    t1_add_services(add_origin(EmptyDict, s.hts_lookup, 1, "hts"),
                                    s.cpc_lookup, 1)]
    IN  [st |-> s1,
         files |-> write_json(write_json(fs, "t1-tree.json",
                                         TreeDoc(s1.heap, s1.combined_tree)),
                              "t1-lookup.json", s1.combined_lookup)]

T1Load ==
    /\ gen = "t1" /\ pc = "start"
    /\ st' = t1_load(files)
    /\ pc' = "loaded"
    /\ UNCHANGED <<gen, rows, files>>

T1Write ==
    /\ gen = "t1" /\ pc = "loaded"
    /\ LET r == t1_finish(st, files)
       IN  st' = r.st /\ files' = r.files
    /\ pc' = "done"
    /\ UNCHANGED <<gen, rows>>

\* generate_cpc and generate_hts have run on the rows of the run.
InitT1 ==
    /\ gen = "t1" /\ pc = "start" /\ st = <<>>
    /\ \E cpc \in ComposerCpcInputs, hts \in ComposerHtsInputs :
          /\ rows = [cpc |-> cpc, hts |-> hts]
          /\ files = ComposerFiles(cpc, hts)

NextT1 == T1Load \/ T1Write

SpecT1 == InitT1 /\ [][NextT1]_vars

\* ------------------------------------------------------------------------
\* 10. generate_taxonomy2
\* ------------------------------------------------------------------------
\* code.replace('.', '').replace(' ', '')
CleanCode(code) == Strip(Strip(code, "."), " ")

\* def index_hts(nodes): clean code -> node, in depth-first preorder; a later
\* node with the same clean code replaces the earlier one
RECURSIVE index_nodes(_, _, _)
index_nodes(heap, index, order) ==
    IF order = <<>> THEN index
    ELSE LET n == Head(order)
             clean == CleanCode(heap[n].code)
         IN  index_nodes(heap, IF clean # <<>> THEN Put(index, clean, n) ELSE index,
                         Tail(order))

index_hts(heap, nodes) == index_nodes(heap, EmptyDict, Walk(heap, nodes))

\* The nodes of hts_index.items() whose key starts with hs_code and has n digits
PrefixMatches(index, hs_code, n) ==
    LET hit == SelectSeq([k \in 1..Len(index.keys) |-> k],
                         LAMBDA k : StartsWith(index.keys[k], hs_code)
                                    /\ Len(index.keys[k]) = n)
    IN  [k \in 1..Len(hit) |-> index.val[hit[k]]]

\* extract_hts_for_hs that collects the 8-digit nodes before it tries the
\* padded code
hts_matches_prefix_first(index, hs_code) ==
    LET code_00 == hs_code \o <<"0", "0">>
    IN  IF Has(index, hs_code) THEN <<Get(index, hs_code)>>
        ELSE IF PrefixMatches(index, hs_code, 8) # <<>>
             THEN PrefixMatches(index, hs_code, 8)
        ELSE IF Has(index, code_00) THEN <<Get(index, code_00)>>
        ELSE PrefixMatches(index, hs_code, 10)

\* The nodes of hts_tree that extract_hts_for_hs copies for hs_code
hts_matches(index, hs_code) ==
    LET code_00 == hs_code \o <<"0", "0">>
    IN  IF Has(index, hs_code) THEN <<Get(index, hs_code)>>
        ELSE IF Has(index, code_00) THEN <<Get(index, code_00)>>
        ELSE IF PrefixMatches(index, hs_code, 8) # <<>>
             THEN PrefixMatches(index, hs_code, 8)
        ELSE PrefixMatches(index, hs_code, 10)

\* extract_hts_for_hs that returns the nodes of hts_tree themselves
extract_hts_shared(heap, index, hs_code) ==
    [heap |-> heap, refs |-> hts_matches(index, hs_code)]

\* def extract_hts_for_hs(hs_code): deep copies of the matching nodes
extract_hts_for_hs(heap, index, hs_code) ==
    CopyList(heap, hts_matches(index, hs_code), heap)

\* def collect_ids(nodes)
collect_ids(heap, nodes) == { heap[n].id : n \in Range(Walk(heap, nodes)) }

\* "n = 2; while f'{id}-d{n}' in used_ids: n += 1"
RECURSIVE FirstFree(_, _, _)
FirstFree(id, used_ids, n) ==
    IF (id \o <<"-d">> \o IntStr(n)) \in used_ids THEN FirstFree(id, used_ids, n + 1)
    ELSE n

\* def make_unique_ids(node), over a list of nodes in order
RECURSIVE make_unique_ids(_, _, _)
make_unique_ids(heap, used_ids, nodes) ==
    IF nodes = <<>> THEN [heap |-> heap, used_ids |-> used_ids]
    ELSE LET n    == Head(nodes)
             id   == heap[n].id
             id1  == IF id \in used_ids
                     THEN id \o <<"-d">> \o IntStr(FirstFree(id, used_ids, 2))
                     ELSE id
             h1   == [heap EXCEPT ![n].id = id1]
             u1   == used_ids \cup {id1}
             kids == IF h1[n].hasChildren THEN make_unique_ids(h1, u1, h1[n].children)
                     ELSE [heap |-> h1, used_ids |-> u1]
         IN  make_unique_ids(kids.heap, kids.used_ids, Tail(nodes))

\* "for mapping in hs_mappings": extract, re-prefix in place, make unique,
\* append to hts_children
RECURSIVE graft_mappings(_, _, _, _, _)
graft_mappings(heap, used_ids, index, hs_mappings, hts_children) ==
    IF hs_mappings = <<>>
    THEN [heap |-> heap, used_ids |-> used_ids, hts_children |-> hts_children]
    ELSE LET extracted == extract_hts_for_hs(heap, index, Head(hs_mappings).code)
             h1 == reprefix_nodes(extracted.heap, extracted.refs,
                                  <<"hts-">>, <<"t2-", "hts-">>)
             u  == make_unique_ids(h1, used_ids, extracted.refs)
         IN  graft_mappings(u.heap, u.used_ids, index, Tail(hs_mappings),
                            hts_children \o extracted.refs)

\* ------------------------------------------------------------------------
\* C25
\* ------------------------------------------------------------------------
\* goods_section_codes with the service sections added
all_section_codes ==
    { <<"0">>, <<"1">>, <<"2">>, <<"3">>, <<"4">>, <<"5">>, <<"6">>, <<"7">>, <<"8">>,
      <<"9">> }

goods_section_codes == { <<"0">>, <<"1">>, <<"2">>, <<"3">>, <<"4">> }

\* def attach_hts_detail(nodes, in_goods_section)
RECURSIVE attach_hts_detail(_, _, _, _, _, _)
attach_hts_detail(heap, used_ids, index, cpc_to_hs, nodes, in_goods_section) ==
    IF nodes = <<>> THEN [heap |-> heap, used_ids |-> used_ids]
    ELSE LET node == Head(nodes)
             original_cpc_code == Strip(heap[node].id, "t2-")
             is_goods == in_goods_section
                         \/ (Len(original_cpc_code) = 1
                             /\ original_cpc_code \in goods_section_codes)
             hs_mappings == IF Has(cpc_to_hs, original_cpc_code)
                            THEN Get(cpc_to_hs, original_cpc_code) ELSE <<>>
             g == graft_mappings(heap, used_ids, index, hs_mappings, <<>>)
             r == IF heap[node].hasChildren
                  THEN attach_hts_detail(heap, used_ids, index, cpc_to_hs,
                                         heap[node].children, is_goods)
                  ELSE IF is_goods /\ hs_mappings # <<>> /\ g.hts_children # <<>>
                  THEN [heap |-> [g.heap EXCEPT ![node].hasChildren = TRUE,
                                                ![node].children = g.hts_children],
                        used_ids |-> g.used_ids]
                  ELSE IF is_goods /\ hs_mappings # <<>>
                  THEN [heap |-> g.heap, used_ids |-> g.used_ids]
                  ELSE [heap |-> heap, used_ids |-> used_ids]
         IN  attach_hts_detail(r.heap, r.used_ids, index, cpc_to_hs, Tail(nodes),
                               in_goods_section)

\* add_hts_to_lookup with the entries keyed by the bare clean code
RECURSIVE add_hts_without_marker(_, _, _, _, _)
add_hts_without_marker(heap, lookup, nodes, section_code, section_name) ==
    IF nodes = <<>> THEN lookup
    ELSE LET node == Head(nodes)
             clean_code == CleanCode(heap[node].code)
             l1 == IF StartsWith(heap[node].id, <<"t2-", "hts-">>)
                      /\ ~Has(lookup, clean_code)
                   THEN Put(lookup, clean_code,
                            [code |-> heap[node].code, description |-> heap[node].name,
                             section |-> section_code, sectionName |-> section_name,
                             level |-> Len(clean_code), type |-> heap[node].type,
                             origin |-> "hts", originalCode |-> clean_code])
                   ELSE lookup
             l2 == IF heap[node].hasChildren
                   THEN add_hts_without_marker(heap, l1, heap[node].children,
                                               section_code, section_name)
                   ELSE l1
         IN  add_hts_without_marker(heap, l2, Tail(nodes), section_code, section_name)

\* def add_hts_to_lookup(nodes, section_code, section_name)
RECURSIVE add_hts_to_lookup(_, _, _, _, _)
add_hts_to_lookup(heap, lookup, nodes, section_code, section_name) ==
    IF nodes = <<>> THEN lookup
    ELSE LET node == Head(nodes)
             is_hts == StartsWith(heap[node].id, <<"t2-", "hts-">>)
             clean_code == CleanCode(heap[node].code)
             hts_key == <<"HTS">> \o clean_code
             cpc_code == Strip(heap[node].id, "t2-")
             is_section == ~is_hts /\ Len(cpc_code) = 1
             code1 == IF is_section THEN cpc_code ELSE section_code
             name1 == IF is_section THEN heap[node].name ELSE section_name
             l1 == IF is_hts /\ ~Has(lookup, hts_key)
                   THEN Put(lookup, hts_key,
                            [code |-> heap[node].code, description |-> heap[node].name,
                             section |-> section_code, sectionName |-> section_name,
                             level |-> Len(clean_code), type |-> heap[node].type,
                             origin |-> "hts", originalCode |-> clean_code])
                   ELSE lookup
             l2 == IF heap[node].hasChildren
                   THEN add_hts_to_lookup(heap, l1, heap[node].children, code1, name1)
                   ELSE l1
         IN  add_hts_to_lookup(heap, l2, Tail(nodes), code1, name1)

\* The five json.load calls, hts_index, the re-prefixed copy of the CPC tree
\* and collect_ids.
t2_load(fs) ==
    LET cpc == LoadTree(<<>>, fs["cpc-tree.json"])
        hts == LoadTree(cpc.heap, fs["hts-tree.json"])
        t2  == reprefix_tree(hts.heap, cpc.refs, <<"cpc-">>, <<"t2-">>)
    IN  [heap |-> t2.heap, cpc_tree |-> cpc.refs, hts_tree |-> hts.refs,
         cpc_lookup |-> fs["cpc-lookup.json"], hts_lookup |-> fs["hts-lookup.json"],
         cpc_to_hs |-> fs["concordance.json"].cpcToHs,
         hts_index |-> index_hts(hts.heap, hts.refs),
         t2_tree |-> t2.refs,
         used_ids |-> collect_ids(t2.heap, t2.refs),
         combined_lookup |-> EmptyDict]

\* attach_hts_detail(t2_tree)
t2_attach(s) ==
    LET r == attach_hts_detail(s.heap, s.used_ids, s.hts_index, s.cpc_to_hs,
                               s.t2_tree, FALSE)
    IN  [s EXCEPT !.heap = r.heap, !.used_ids = r.used_ids]

\* "Build combined lookup" and the two write_json calls
t2_finish(s, fs) ==
    LET s1 == [s EXCEPT
                 !.combined_lookup =
                    add_hts_to_lookup(s.heap, add_origin(EmptyDict, s.cpc_lookup, 1, "cpc"),
                                      s.t2_tree, <<>>, <<>>)]
    IN  [st |-> s1,
         files |-> write_json(write_json(fs, "t2-tree.json", TreeDoc(s1.heap, s1.t2_tree)),
                              "t2-lookup.json", s1.combined_lookup)]

\* generate_taxonomy2() from the files of the run
generate_taxonomy2(fs) == t2_finish(t2_attach(t2_load(fs)), fs).files

T2Load ==
    /\ gen = "t2" /\ pc = "start"
    /\ st' = t2_load(files)
    /\ pc' = "loaded"
    /\ UNCHANGED <<gen, rows, files>>

T2Attach ==
    /\ gen = "t2" /\ pc = "loaded"
    /\ st' = t2_attach(st)
    /\ pc' = "attached"
    /\ UNCHANGED <<gen, rows, files>>

T2Write ==
    /\ gen = "t2" /\ pc = "attached"
    /\ LET r == t2_finish(st, files)
       IN  st' = r.st /\ files' = r.files
    /\ pc' = "done"
    /\ UNCHANGED <<gen, rows>>

\* generate_cpc, generate_hts and generate_concordance have run on the rows
\* of the run.
InitT2 ==
    /\ gen = "t2" /\ pc = "start" /\ st = <<>>
    /\ \E cpc \in ComposerCpcInputs, hts \in ComposerHtsInputs,
          reader \in SeqsUpTo(ComposerConcordanceRows, MaxMappings) :
          /\ rows = [cpc |-> cpc, hts |-> hts, concordance |-> reader]
          /\ files = generate_concordance(reader, ComposerFiles(cpc, hts))

NextT2 == T2Load \/ T2Attach \/ T2Write

SpecT2 == InitT2 /\ [][NextT2]_vars

\* ------------------------------------------------------------------------
\* 11. jaccard on its own
\* ------------------------------------------------------------------------
\* Words the token sets are drawn from.
JaccardWords == { "live", "horses", "asses", "mules" }

\* jaccard(set1, set2) is called on the two token sets of the run.
JaccardCall ==
    /\ gen = "jaccard" /\ pc = "start"
    /\ st' = [similarity |-> jaccard(rows.set1, rows.set2)]
    /\ pc' = "done"
    /\ UNCHANGED <<gen, rows, files>>

InitJaccard ==
    /\ gen = "jaccard" /\ pc = "start" /\ st = <<>> /\ files = NoFiles
    /\ \E X \in SUBSET JaccardWords, Y \in SUBSET JaccardWords :
          rows = [set1 |-> X, set2 |-> Y]

NextJaccard == JaccardCall

SpecJaccard == InitJaccard /\ [][NextJaccard]_vars

\* Runs of the fuzzy mapping with up to MaxReverseSources commodities against
\* up to MaxReverseTargets subheadings, all of them about horses, so that one
\* subheading can be the match of more than TOP_N commodities.
InitFuzzyReverse ==
    /\ gen = "fuzzy" /\ pc = "start" /\ st = fuzzy_locals
    /\ \E hs \in SeqsUpTo({DescHorsesAsses, DescHorses}, MaxReverseTargets),
          un \in SeqsUpTo({DescLiveHorses, DescHorses}, MaxReverseSources) :
          /\ rows = [hs |-> FuzzyHsRows(hs), unspsc |-> FuzzyUnspscRows(un)]
          /\ files = generate_unspsc(rows.unspsc,
                        generate_hs(SectionTables1, rows.hs, NoFiles))

SpecFuzzyReverse == InitFuzzyReverse /\ [][NextFuzzy]_vars

\* ------------------------------------------------------------------------
\* 12. All generators: a run of one generator on the inputs of its bounds
\* ------------------------------------------------------------------------
Init ==
    \/ InitHs
    \/ InitCpc
    \/ InitCn
    \/ InitHts
    \/ InitCa
    \/ InitConcordance
    \/ InitUnspsc
    \/ InitFuzzy
    \/ InitT1
    \/ InitT2

Next ==
    \/ NextHs
    \/ NextCpc
    \/ NextCn
    \/ NextHts
    \/ NextCa
    \/ NextConcordance
    \/ NextUnspsc
    \/ NextFuzzy
    \/ NextT1
    \/ NextT2

Spec == Init /\ [][Next]_vars

\* The generators that assemble a tree by code prefix.
InitPrefix == InitCpc \/ InitCn \/ InitUnspsc

NextPrefix == NextCpc \/ NextCn \/ NextUnspsc

SpecPrefix == InitPrefix /\ [][NextPrefix]_vars

\* The calls with generate_concordance moved to the end
PIPELINE_concordance_last ==
    <<"generate_hs", "generate_cpc", "generate_cn", "generate_hts",
      "generate_canadian", "generate_unspsc", "generate_unspsc_hs_fuzzy_mapping",
      "generate_taxonomy1", "generate_taxonomy2", "generate_concordance">>

\* ------------------------------------------------------------------------
\* 13. The main run: the ten generators called one after the other
\* ------------------------------------------------------------------------
\* "if __name__ == '__main__'": the calls in their order.
PIPELINE ==
    <<"generate_hs", "generate_cpc", "generate_cn", "generate_hts",
      "generate_canadian", "generate_concordance", "generate_unspsc",
      "generate_unspsc_hs_fuzzy_mapping", "generate_taxonomy1", "generate_taxonomy2">>

\* The documents of the output directory a generator opens for reading.
Reads(g) ==
    CASE g = "generate_unspsc_hs_fuzzy_mapping" -> {"hs-lookup.json", "unspsc-lookup.json"}
      [] g = "generate_taxonomy1" ->
            {"hts-tree.json", "cpc-tree.json", "hts-lookup.json", "cpc-lookup.json"}
      [] g = "generate_taxonomy2" ->
            {"cpc-tree.json", "cpc-lookup.json", "hts-tree.json", "hts-lookup.json",
             "concordance.json"}
      [] OTHER -> {}

\* The documents a generator writes with write_json.
Writes(g) ==
    CASE g = "generate_hs"          -> {"hs-tree.json", "hs-lookup.json"}
      [] g = "generate_cpc"         -> {"cpc-tree.json", "cpc-lookup.json"}
      [] g = "generate_cn"          -> {"cn-tree.json", "cn-lookup.json"}
      [] g = "generate_hts"         -> {"hts-tree.json", "hts-lookup.json"}
      [] g = "generate_canadian"    -> {"ca-tree.json", "ca-lookup.json"}
      [] g = "generate_concordance" -> {"concordance.json"}
      [] g = "generate_unspsc"      -> {"unspsc-tree.json", "unspsc-lookup.json"}
      [] g = "generate_unspsc_hs_fuzzy_mapping" -> {"unspsc-hs-mapping.json"}
      [] g = "generate_taxonomy1"   -> {"t1-tree.json", "t1-lookup.json"}
      [] g = "generate_taxonomy2"   -> {"t2-tree.json", "t2-lookup.json"}

\* How a call ends: the function returns after its write_json calls, returns
\* early, or raises (and the run ends with the traceback).
Done(fs) == [files |-> fs, outcome |-> "done"]

Aborted(fs) == [files |-> fs, outcome |-> "aborted"]

Raised(fs) == [files |-> fs, outcome |-> "raised"]

RECURSIVE cn_run(_, _)
cn_run(s, sheet) ==
    IF sheet = <<>> THEN s ELSE cn_run(cn_row(s, Head(sheet)), Tail(sheet))

RECURSIVE ca_run(_, _)
ca_run(s, fetched) ==
    IF fetched = <<>> THEN s ELSE ca_run(ca_row(s, Head(fetched)), Tail(fetched))

RECURSIVE fuzzy_run(_)
fuzzy_run(s) ==
    IF s.i = Len(s.unspsc_items.keys) THEN s ELSE fuzzy_run(fuzzy_item(s))

\* generate_cn that writes an empty tree and lookup before it returns early
generate_cn_writing_early(raw, fs) ==
    IF ~raw.openpyxl THEN Aborted(cn_finish(cn_locals, fs).files)
    ELSE IF ~raw.sections.exists THEN Raised(fs)
    ELSE Done(cn_finish(cn_run(cn_locals, raw.cn), fs).files)

\* generate_cn() in the main run
generate_cn(raw, fs) ==
    IF ~raw.openpyxl THEN Aborted(fs)
    ELSE IF ~raw.sections.exists THEN Raised(fs)
    ELSE Done(cn_finish(cn_run(cn_locals, raw.cn), fs).files)

\* generate_canadian() in the main run
generate_canadian(raw, fs) ==
    IF ~raw.pyodbc THEN Aborted(fs)
    ELSE LET s0 == ca_sections(ca_locals(raw.sections.table))
         IN  IF ~raw.sections.exists \/ ~s0.ok THEN Raised(fs)
             ELSE Done(ca_finish(ca_run(s0, raw.ca), fs).files)

\* generate_unspsc_hs_fuzzy_mapping() in the main run; the statistics printed
\* after the write divide by len(unspsc_items).
generate_unspsc_hs_fuzzy_mapping(fs) ==
    IF ~(Reads("generate_unspsc_hs_fuzzy_mapping") \subseteq DOMAIN fs) THEN Raised(fs)
    ELSE LET s == fuzzy_run([fuzzy_load(fs) EXCEPT !.i = 0])
             r == fuzzy_finish(s, fs)
         IN  IF Len(s.unspsc_items.keys) = 0 THEN Raised(r.files) ELSE Done(r.files)

\* generate_taxonomy1() in the main run
generate_taxonomy1(fs) ==
    IF ~(Reads("generate_taxonomy1") \subseteq DOMAIN fs) THEN Raised(fs)
    ELSE Done(t1_finish(t1_load(fs), fs).files)

\* The call of generator g on the raw data raw and the output directory fs.
Call(g, raw, fs) ==
    CASE g = "generate_hs" ->
            IF ~raw.sections.exists
               \/ ~hs_sections(hs_locals(raw.sections.table)).ok THEN Raised(fs)
            ELSE Done(generate_hs(raw.sections.table, raw.hs, fs))
      [] g = "generate_cpc" -> Done(generate_cpc(raw.cpc, fs))
      [] g = "generate_cn" -> generate_cn(raw, fs)
      [] g = "generate_hts" ->
            IF ~raw.sections.exists
               \/ ~hts_sections(hts_locals(raw.sections.table)).ok THEN Raised(fs)
            ELSE Done(generate_hts(raw.sections.table, raw.hts, NoHash, fs))
      [] g = "generate_canadian" -> generate_canadian(raw, fs)
      [] g = "generate_concordance" ->
            IF ~raw.concordance.exists
            THEN Done(write_json(fs, "concordance.json",
                                 [hsToCpc |-> EmptyDict, cpcToHs |-> EmptyDict,
                                  mappingInfo |-> EmptyDict]))
            ELSE Done(generate_concordance(raw.concordance.reader, fs))
      [] g = "generate_unspsc" ->
            LET r == unspsc_finish(unspsc_run(unspsc_locals, raw.unspsc), fs)
            IN  IF r.st.ok THEN Done(r.files) ELSE Raised(fs)
      [] g = "generate_unspsc_hs_fuzzy_mapping" -> generate_unspsc_hs_fuzzy_mapping(fs)
      [] g = "generate_taxonomy1" -> generate_taxonomy1(fs)
      [] g = "generate_taxonomy2" ->
            IF ~(Reads("generate_taxonomy2") \subseteq DOMAIN fs) THEN Raised(fs)
            ELSE Done(generate_taxonomy2(fs))

\* The generator called after g, "Done!" after the last.
After(g) ==
    LET i == CHOOSE k \in 1..Len(PIPELINE) : PIPELINE[k] = g
    IN  IF i = Len(PIPELINE) THEN "finished" ELSE PIPELINE[i + 1]

\* The raw-data directories and installations of the main runs.
MainSections ==
    { [exists |-> FALSE, table |-> EmptyDict],
      [exists |-> TRUE, table |-> SectionTables1],
      [exists |-> TRUE, table |-> [keys |-> <<II_, I_>>, val |-> << <<"B", "a">>, <<>> >>]] }

MainCnSheet ==
    << [cn |-> <<"0", "1">>, dashes |-> <<>>, titleRow |-> FALSE,
        description |-> RowTitle(1)],
       [cn |-> <<"0", "1", "0", "1">>, dashes |-> <<>>, titleRow |-> FALSE,
        description |-> RowTitle(2)] >>

MainCaRows ==
    << [tariff |-> CaTariffs[1], pos |-> 1, description |-> RowTitle(1)],
       [tariff |-> CaTariffs[2], pos |-> 2, description |-> RowTitle(2)] >>

MainConcordances ==
    { [exists |-> FALSE, reader |-> <<>>] }
    \cup { [exists |-> TRUE, reader |-> <<row>>] :
              row \in { r \in ComposerConcordanceRows : r.cpc # <<"0", "2">> } }

MainUnspsc ==
    { <<>>, FuzzyUnspscRows(<<DescHorses>>),
      << [seg |-> <<"1", "0">>, fam |-> <<"1", "0">>, cls |-> <<"1", "0">>,
          com |-> <<"1", "0">>, seg_name |-> DescHorses, fam_name |-> DescHorses,
          cls_name |-> DescHorses, com_name |-> DescHorses] >> }

MainHts ==
    { ComposerHtsRaw(<<item>>) :
        item \in { i \in ComposerHtsItems : Len(Strip(i.htsno, ".")) = 6 } }
    \cup { ComposerHtsRaw(<<>>) }

MainCpc ==
    { CpcEntries(<< <<"0">>, <<"0", "1">>, x, <<"5">>, <<"5", "1">> >>) :
        x \in { <<"0", "2">>, <<"0", "1", "1">> } }

\* The start of a call: the generator named by pc begins to run.
MainStart ==
    /\ gen = "main" /\ pc \in Range(PIPELINE) /\ st.running = ""
    /\ st' = [st EXCEPT !.running = pc, !.log = Append(@, [event |-> "start", gen |-> pc])]
    /\ UNCHANGED <<gen, pc, rows, files>>

\* The end of a call: the generator has done all it does; after a raise the
\* run is over, after a return the next generator is due.
MainReturn ==
    /\ gen = "main" /\ st.running # ""
    /\ \E r \in {Call(st.running, rows, files)} :
           /\ files' = r.files
           /\ st' = [st EXCEPT !.running = "",
                               !.log = Append(@, [event |-> r.outcome, gen |-> st.running])]
           /\ pc' = IF r.outcome = "raised" THEN "crashed" ELSE After(st.running)
    /\ UNCHANGED <<gen, rows>>

InitMain ==
    /\ gen = "main" /\ pc = PIPELINE[1] /\ files = NoFiles
    /\ st = [running |-> "", log |-> <<>>]
    /\ \E sections \in MainSections, cpc \in MainCpc, hts \in MainHts,
          concordance \in MainConcordances, unspsc \in MainUnspsc,
          openpyxl \in BOOLEAN, pyodbc \in BOOLEAN :
          rows = [sections |-> sections, hs |-> FuzzyHsRows(<<DescHorses>>),
                  cpc |-> cpc, openpyxl |-> openpyxl, cn |-> MainCnSheet, hts |-> hts,
                  pyodbc |-> pyodbc, ca |-> MainCaRows, concordance |-> concordance,
                  unspsc |-> unspsc]

NextMain == MainStart \/ MainReturn

SpecMain == InitMain /\ [][NextMain]_vars

\* ------------------------------------------------------------------------
\* 14. generate_hts run twice on one hts-2026.json
\* ------------------------------------------------------------------------
\* Items of the file of such a run, at most.
MaxRepeatRows == 3

\* hash(desc) % 100000 of one interpreter process: a function of the
\* description, drawn afresh with the hash seed of each process.
HashFunctions(raw) ==
    [ { raw[k].description : k \in { i \in 1..Len(raw) : raw[i].htsno = <<>> } }
        -> 0..(HashValues - 1) ]

\* The first run of the script writes into an empty output directory.
HtsFirstRun ==
    /\ gen = "hts-runs" /\ pc = "first"
    /\ \E hashf \in HashFunctions(rows) :
          files' = generate_hts(st.sections, rows, hashf, NoFiles)
    /\ st' = [st EXCEPT !.first = files']
    /\ pc' = "second"
    /\ UNCHANGED <<gen, rows>>

\* The second run, a new process, writes over the documents of the first.
HtsSecondRun ==
    /\ gen = "hts-runs" /\ pc = "second"
    /\ \E hashf \in HashFunctions(rows) :
          files' = generate_hts(st.sections, rows, hashf, files)
    /\ pc' = "done"
    /\ UNCHANGED <<gen, rows, st>>

InitHtsRuns ==
    /\ gen = "hts-runs" /\ pc = "first" /\ files = NoFiles
    /\ \E sections \in SectionTables, items \in SeqsUpTo(HtsItems, MaxRepeatRows) :
          /\ st = [sections |-> sections, first |-> NoFiles]
          /\ rows = [k \in 1..Len(items) |->
                       [htsno |-> items[k].htsno, indent |-> items[k].indent,
                        superior |-> items[k].superior,
                        description |-> HtsDescription(items[k].kind, k)]]

NextHtsRuns == HtsFirstRun \/ HtsSecondRun

SpecHtsRuns == InitHtsRuns /\ [][NextHtsRuns]_vars

\* ------------------------------------------------------------------------
\* Properties
\* ------------------------------------------------------------------------
TreeFiles ==
    { "hs-tree.json", "cpc-tree.json", "cn-tree.json", "hts-tree.json", "ca-tree.json",
      "unspsc-tree.json", "t1-tree.json", "t2-tree.json" }

\* The tree documents written so far.
Written == { files[f] : f \in DOMAIN files \cap TreeFiles }

\* The nodes of a document reachable from its root list.
Reachable(doc) == Range(Walk(doc.heap, doc.tree))

\* C1: in every tree document written by one of the eight tree generators, no
\* node reachable from the root list has a 'children' field that is an empty
\* list; the field is absent or holds at least one node.
C1_NoDanglingChildren ==
    \A doc \in Written : \A n \in Reachable(doc) :
        doc.heap[n].hasChildren => doc.heap[n].children # <<>>

\* An HTS tree is written in which a heading, created with an empty 'children'
\* list, has lost the field, next to a heading that kept its children.
C1_Witness ==
    /\ gen = "hts" /\ pc = "done"
    /\ LET doc == files["hts-tree.json"]
       IN  /\ \E n \in Reachable(doc) :
                 doc.heap[n].type = "heading" /\ ~doc.heap[n].hasChildren
           /\ \E n \in Reachable(doc) :
                 doc.heap[n].type = "heading" /\ doc.heap[n].children # <<>>

\* Tree file and lookup file of the six taxonomy generators.
Taxonomies ==
    { [tree |-> "hs-tree.json", lookup |-> "hs-lookup.json"],
      [tree |-> "cpc-tree.json", lookup |-> "cpc-lookup.json"],
      [tree |-> "cn-tree.json", lookup |-> "cn-lookup.json"],
      [tree |-> "hts-tree.json", lookup |-> "hts-lookup.json"],
      [tree |-> "ca-tree.json", lookup |-> "ca-lookup.json"],
      [tree |-> "unspsc-tree.json", lookup |-> "unspsc-lookup.json"] }

\* The non-empty codes of the reachable nodes of a document, the top-level
\* section and segment nodes left out.
TreeCodes(doc) ==
    { doc.heap[n].code :
        n \in { m \in Reachable(doc) : /\ doc.heap[m].code # <<>>
                                       /\ doc.heap[m].type \notin {"section", "segment"} } }

\* C2: for every taxonomy generator and any rows, the keys of the written
\* lookup are exactly the non-empty codes of the nodes reachable in the written
\* tree, top-level group nodes excluded, also when a row's parent is missing.
C2_RoundTrip ==
    \A t \in Taxonomies :
        (t.tree \in DOMAIN files /\ t.lookup \in DOMAIN files)
            => Keys(files[t.lookup]) = TreeCodes(files[t.tree])

\* generate_hs has written a lookup with the key of a heading whose chapter
\* was in no row, and the heading is not in the written tree.
C2_Witness ==
    /\ gen = "hs" /\ pc = "done"
    /\ \E k \in 1..Len(rows) :
          /\ rows[k].level = "4"
          /\ \A j \in 1..Len(rows) : rows[j].hscode # rows[k].parent
          /\ rows[k].hscode \in Keys(files["hs-lookup.json"])
          /\ rows[k].hscode \notin TreeCodes(files["hs-tree.json"])

\* No two reachable nodes of a document share an id.
UniqueIds(doc) ==
    \A m, n \in Reachable(doc) : m # n => doc.heap[m].id # doc.heap[n].id

\* C3: after generate_taxonomy2, for any CPC tree, HTS tree and concordance,
\* every node id of the merged tree is unique.
C3_CompositeIdsUnique ==
    (gen = "t2" /\ pc = "done") => UniqueIds(files["t2-tree.json"])

\* The merged tree of a CPC file that lists the code 01 twice holds two
\* backbone nodes with the id t2-01.
C3_Witness ==
    /\ gen = "t2" /\ pc = "done"
    /\ LET doc == files["t2-tree.json"]
       IN  \E m, n \in Reachable(doc) :
              m # n /\ doc.heap[m].id = <<"t2-", "0", "1">> /\ doc.heap[n].id = doc.heap[m].id

\* C4: for any input rows, no two nodes of one written tree (hs, cpc, cn, hts,
\* ca, unspsc, t1) share an id.
C4_IdsUnique ==
    \A f \in (DOMAIN files \cap TreeFiles) \ {"t2-tree.json"} : UniqueIds(files[f])

\* generate_cpc has written a tree for a file that lists a code twice, and the
\* tree holds two nodes with that code's id.
C4_Witness ==
    /\ gen = "cpc" /\ pc = "done"
    /\ \E j, k \in 1..Len(rows) : j # k /\ rows[j].code = rows[k].code
    /\ ~UniqueIds(files["cpc-tree.json"])

\* C5: after generate_concordance has processed the rows of an existing file,
\* every row (HS code A without dots, CPC code B) has an entry with code B in
\* hsToCpc[A] and an entry with code A in cpcToHs[B], both with the row's two
\* partial flags; and mappingInfo gives every code of either side the length of
\* its list as count, and the type 1:1 exactly when that length is 1, else 1:N.
C5_ExactConcordance ==
    (gen = "concordance" /\ pc = "done" /\ st.exists) =>
        LET doc == files["concordance.json"]
            InfoOk(d, prefix) ==
                \A k \in 1..Len(d.keys) :
                    /\ Has(doc.mappingInfo, <<prefix>> \o d.keys[k])
                    /\ LET info == Get(doc.mappingInfo, <<prefix>> \o d.keys[k])
                       IN  /\ info.count = Len(d.val[k])
                           /\ info.type = (IF Len(d.val[k]) = 1 THEN "1:1" ELSE "1:N")
        IN  /\ \A k \in 1..Len(rows) :
                  LET A == Strip(rows[k].hs, ".")
                      B == rows[k].cpc
                      entry(code) == [hsPartial |-> rows[k].hsPartial = "1",
                                      cpcPartial |-> rows[k].cpcPartial = "1",
                                      code |-> code]
                  IN  /\ Has(doc.hsToCpc, A)
                      /\ entry(B) \in Range(Get(doc.hsToCpc, A))
                      /\ Has(doc.cpcToHs, B)
                      /\ entry(A) \in Range(Get(doc.cpcToHs, B))
            /\ InfoOk(doc.hsToCpc, "hs-")
            /\ InfoOk(doc.cpcToHs, "cpc-")

\* A concordance is written for rows that spell one HS code with and without
\* dots against two CPC codes: the HS code is 1:N, a CPC code is 1:1.
C5_Witness ==
    /\ gen = "concordance" /\ pc = "done" /\ st.exists
    /\ \E j, k \in 1..Len(rows) :
          /\ rows[j].hs # rows[k].hs
          /\ Strip(rows[j].hs, ".") = Strip(rows[k].hs, ".")
          /\ rows[j].cpc # rows[k].cpc
          /\ rows[j].hsPartial = "1"
    /\ LET info == files["concordance.json"].mappingInfo
       IN  /\ Get(info, <<"hs-", "0", "1", "0", "1", "2", "1">>).type = "1:N"
           /\ Get(info, <<"cpc-", "0", "1">>).type = "1:1"

\* The node made for the k-th item of raw: the section nodes come first, and
\* every item with a description makes one node.
HtsNodeOf(k) == Len(st.tree) + k

\* The nodes that hold n in their 'children'.
Parents(heap, n) == { p \in 1..Len(heap) : n \in Range(heap[p].children) }

Max(S) == CHOOSE x \in S : \A y \in S : y <= x

\* The items before the k-th with a strictly smaller indent.
SmallerBefore(k) == { j \in 1..(k - 1) : rows[j].indent < rows[k].indent }

\* The chapter the k-th item is filed under when it has no parent on the stack:
\* that of the latest heading up to it.
ChapterAt(k) ==
    LET hd == { j \in 1..k : Len(Strip(rows[j].htsno, ".")) = 4 }
    IN  IF hd = {} THEN <<>> ELSE Take(rows[Max(hd)].htsno, 2)

\* Children are kept in the order of their items.
ChildrenInOrder ==
    \A p \in 1..Len(st.heap) :
        \A a, b \in 1..Len(st.heap[p].children) :
            a < b => st.heap[p].children[a] < st.heap[p].children[b]

\* The shape of indents [0,1,1,2,1]: items 2, 3 and 5 are the children of item
\* 1 in that order, item 4 is the only child of item 3, item 5 is below
\* neither item 2 nor item 3.
ShapeOf01121 ==
    [k \in 1..Len(rows) |-> rows[k].indent] = <<0, 1, 1, 2, 1>> =>
        /\ st.heap[HtsNodeOf(1)].children = <<HtsNodeOf(2), HtsNodeOf(3), HtsNodeOf(5)>>
        /\ st.heap[HtsNodeOf(3)].children = <<HtsNodeOf(4)>>
        /\ HtsNodeOf(5) \notin Range(Walk(st.heap, st.heap[HtsNodeOf(2)].children))
        /\ HtsNodeOf(5) \notin Range(Walk(st.heap, st.heap[HtsNodeOf(3)].children))

\* An item with an earlier item of smaller indent is a child of the nearest
\* such item and of nothing else.
NearestSmallerIsParent(k) ==
    SmallerBefore(k) # {} =>
        Parents(st.heap, HtsNodeOf(k)) = { HtsNodeOf(Max(SmallerBefore(k))) }

ParentCode(code) ==
    IF gen = "cpc" THEN DropLast(code) ELSE Take(code, Len(code) - 2)

\* Node n of the working tree is a record below the top level whose code has
\* the width of its level.
BelowTop(n) ==
    LET node == st.heap[n]
    IN  CASE gen = "cpc"    -> Len(node.code) > 1
          [] gen = "cn"     -> node.type \in {"heading", "subheading", "cn8"}
          [] gen = "unspsc" -> \/ node.type = "family" /\ Len(node.code) = 4
                               \/ node.type = "class" /\ Len(node.code) = 6
                               \/ node.type = "commodity" /\ Len(node.code) = 8
          [] OTHER          -> FALSE

\* The nodes made before n for the code of n without its last segment.
ParentsFirst(n) ==
    { m \in 1..(n - 1) : st.heap[m].code = ParentCode(st.heap[n].code) }

\* C7: in generate_cpc, generate_cn and generate_unspsc, a record below the top
\* level whose parent record came first is a child of the node of its own code
\* with the last segment removed (the latest node made for that code), and of
\* no other node; so 01, 0101, 010121 in that order give 010121 below 0101 and
\* 0101 below 01.
C7_PrefixAssembly ==
    gen \in {"cpc", "cn", "unspsc"} =>
        \A n \in 1..Len(st.heap) :
            (BelowTop(n) /\ ParentsFirst(n) # {})
                => Parents(st.heap, n) = { Max(ParentsFirst(n)) }

\* generate_cn has written the tree of rows with the codes 01, 0101 and
\* 0101 21 in that order: 010121 is a child of 0101, and 0101 a child of 01.
C7_Witness ==
    /\ gen = "cn" /\ pc = "done"
    /\ \E a, b, c \in 1..Len(st.heap) :
          /\ a < b /\ b < c
          /\ st.heap[a].code = <<"0", "1">>
          /\ st.heap[b].code = <<"0", "1", "0", "1">>
          /\ st.heap[c].code = <<"0", "1", "0", "1", "2", "1">>
          /\ c \in Range(st.heap[b].children)
          /\ b \in Range(st.heap[a].children)

\* Two fractions are the same number.
SameFraction(a, b) == a.num * b.den = b.num * a.den

\* C8: for all token sets X and Y, jaccard(X, Y) is |X \cap Y| / |X \cup Y| and
\* lies in [0, 1]; jaccard(X, X) = 1 for non-empty X; jaccard(X, Y) = 0 when X
\* or Y is empty; and jaccard(X, Y) = jaccard(Y, X).
C8_JaccardBounds ==
    (gen = "jaccard" /\ pc = "done") =>
        LET X == rows.set1
            Y == rows.set2
            sim == st.similarity
        IN  /\ sim.den > 0 /\ 0 <= sim.num /\ sim.num <= sim.den
            /\ (X # {} /\ Y # {}) =>
                  SameFraction(sim, [num |-> Cardinality(X \cap Y),
                                     den |-> Cardinality(X \cup Y)])
            /\ (X = Y /\ X # {}) => sim.num = sim.den
            /\ (X = {} \/ Y = {}) => sim.num = 0
            /\ SameFraction(sim, jaccard(Y, X))

\* jaccard has been called on {live, horses} and {horses, asses} and has
\* returned 1/3.
C8_Witness ==
    /\ gen = "jaccard" /\ pc = "done"
    /\ rows.set1 = {"live", "horses"} /\ rows.set2 = {"horses", "asses"}
    /\ st.similarity = [num |-> 1, den |-> 3]

\* The written fuzzy mapping, once it is written.
FuzzyWritten == gen = "fuzzy" /\ "unspsc-hs-mapping.json" \in DOMAIN files

FuzzyDoc == files["unspsc-hs-mapping.json"]

\* The similarity of the u-th UNSPSC item and the h-th HS item.
PairSim(u, h) ==
    jaccard(preprocess(st.unspsc_items.val[u]), preprocess(st.hs_items.val[h]))

\* The pair is at or above the threshold 0.3.
Accepted(u, h) == 10 * PairSim(u, h).num >= 3 * PairSim(u, h).den

\* s is sim rounded to thousandths.
IsRounded(s, sim) ==
    LET diff == 1000 * sim.num - s * sim.den
    IN  2 * (IF diff < 0 THEN 0 - diff ELSE diff) <= sim.den

\* The codes listed under key k of a mapping (none when k is no key).
Listed(d, k) == IF Has(d, k) THEN { e.code : e \in Range(Get(d, k)) } ELSE {}

\* The HS item h appears in the ranked result of the UNSPSC item u.
InForward(u, h) ==
    st.hs_items.keys[h] \in Listed(FuzzyDoc.unspscToHs, st.unspsc_items.keys[u])

InReverse(u, h) ==
    st.unspsc_items.keys[u] \in Listed(FuzzyDoc.hsToUnspsc, st.hs_items.keys[h])

\* The HS items that rank before h for u: accepted, and of larger rounded
\* similarity, or of the same and earlier in the iteration.
RankedBefore(u, h) ==
    { g \in 1..Len(st.hs_items.keys) :
        /\ g # h /\ Accepted(u, g)
        /\ \/ Round3(PairSim(u, g)) > Round3(PairSim(u, h))
           \/ Round3(PairSim(u, g)) = Round3(PairSim(u, h)) /\ g < h }

\* No pair below the threshold is in unspscToHs or in hsToUnspsc.
NoneBelowThreshold ==
    \A u \in 1..Len(st.unspsc_items.keys), h \in 1..Len(st.hs_items.keys) :
        ~Accepted(u, h) => ~InForward(u, h) /\ ~InReverse(u, h)

\* C9 (as stated): a pair whose similarity is at or above 0.3 appears in the
\* ranked result of its UNSPSC code, and no pair below 0.3 appears in
\* unspscToHs or in hsToUnspsc.
C9_FuzzyAcceptanceAsStated ==
    FuzzyWritten =>
        /\ \A u \in 1..Len(st.unspsc_items.keys), h \in 1..Len(st.hs_items.keys) :
              Accepted(u, h) => InForward(u, h)
        /\ NoneBelowThreshold

\* C9 (amended): a pair whose similarity is at or above 0.3 appears in the
\* ranked result of its UNSPSC code exactly when fewer than three other HS
\* items rank before it (larger similarity, or the same and earlier), and no
\* pair below 0.3 appears in unspscToHs or in hsToUnspsc.
C9_FuzzyAcceptance ==
    FuzzyWritten =>
        /\ \A u \in 1..Len(st.unspsc_items.keys), h \in 1..Len(st.hs_items.keys) :
              Accepted(u, h) =>
                 (InForward(u, h) <=> Cardinality(RankedBefore(u, h)) < TOP_N)
        /\ NoneBelowThreshold

\* The mapping is written for "Live horses" against "Horses, asses"
\* (similarity 1/3, listed both ways) and for "HORSES" against a description
\* of ten words (similarity 0.1, listed in neither).
C9_Witness ==
    /\ FuzzyWritten
    /\ \E u, v \in 1..Len(st.unspsc_items.keys), h, g \in 1..Len(st.hs_items.keys) :
          /\ PairSim(u, h) = [num |-> 1, den |-> 3]
          /\ InForward(u, h) /\ InReverse(u, h)
          /\ PairSim(v, g) = [num |-> 1, den |-> 10]
          /\ ~InForward(v, g) /\ ~InReverse(v, g)

\* C10: every list in unspscToHs has 1 to 3 entries, is sorted by similarity
\* descending with equal similarities in the iteration order of the HS items,
\* and holds the top 3 of all HS items at or above 0.3 for that source; a
\* source with no such HS item, or with an empty token set, has no key.
C10_ForwardRanking ==
    FuzzyWritten =>
        \A u \in 1..Len(st.unspsc_items.keys) :
            LET key == st.unspsc_items.keys[u]
                fwd == FuzzyDoc.unspscToHs
                Pos(code) == CHOOSE h \in 1..Len(st.hs_items.keys) :
                                st.hs_items.keys[h] = code
                good == { h \in 1..Len(st.hs_items.keys) : Accepted(u, h) }
            IN  /\ Has(fwd, key) <=> good # {}
                /\ preprocess(st.unspsc_items.val[u]) = {} => ~Has(fwd, key)
                /\ Has(fwd, key) =>
                      LET top == Get(fwd, key)
                      IN  /\ Len(top) >= 1 /\ Len(top) <= 3
                          /\ Len(top) = (IF Cardinality(good) < 3 THEN Cardinality(good)
                                         ELSE 3)
                          /\ \A a \in 1..Len(top) :
                                /\ top[a].code \in Keys(st.hs_items)
                                /\ Pos(top[a].code) \in good
                                /\ IsRounded(top[a].similarity,
                                             PairSim(u, Pos(top[a].code)))
                          /\ \A a, b \in 1..Len(top) :
                                a < b =>
                                   \/ top[a].similarity > top[b].similarity
                                   \/ /\ top[a].similarity = top[b].similarity
                                      /\ Pos(top[a].code) < Pos(top[b].code)
                          /\ \A h \in good :
                                ~InForward(u, h) =>
                                   \A a \in 1..Len(top) :
                                       Pos(top[a].code) \in RankedBefore(u, h)

\* The mapping is written for a source with four HS items at or above 0.3: its
\* list holds three of them, two of equal similarity in iteration order, and a
\* source without words has no key.
C10_Witness ==
    /\ FuzzyWritten
    /\ \E u, v \in 1..Len(st.unspsc_items.keys) :
          /\ Cardinality({ h \in 1..Len(st.hs_items.keys) : Accepted(u, h) }) = 4
          /\ Has(FuzzyDoc.unspscToHs, st.unspsc_items.keys[u])
          /\ LET top == Get(FuzzyDoc.unspscToHs, st.unspsc_items.keys[u])
             IN  /\ Len(top) = 3
                 /\ top[1].similarity > top[2].similarity
                 /\ top[2].similarity = top[3].similarity
          /\ preprocess(st.unspsc_items.val[v]) = {}
          /\ ~Has(FuzzyDoc.unspscToHs, st.unspsc_items.keys[v])

\* ------------------------------------------------------------------------
\* C11
\* ------------------------------------------------------------------------
\* The entries listed under key k of a mapping (none when k is no key).
EntriesOf(d, k) == IF Has(d, k) THEN Range(Get(d, k)) ELSE {}

\* The list is sorted by similarity, descending.
SortedDesc(list) ==
    \A a, b \in 1..Len(list) : a < b => list[a].similarity >= list[b].similarity

\* C11: hsToUnspsc is exactly the inversion of the retained forward matches:
\* (code u, similarity s) is in hsToUnspsc[h] if and only if (code h,
\* similarity s) is in unspscToHs[u], each pair once; every reverse list is
\* non-empty and sorted by similarity descending; nothing caps its length and
\* nothing makes the mapping symmetric.
C11_ReverseIsInversion ==
    FuzzyWritten =>
        LET fwd == FuzzyDoc.unspscToHs
            rev == FuzzyDoc.hsToUnspsc
        IN  /\ \A h \in Keys(rev) :
                  /\ Get(rev, h) # <<>>
                  /\ SortedDesc(Get(rev, h))
                  /\ \A a, b \in 1..Len(Get(rev, h)) :
                        a # b => Get(rev, h)[a].code # Get(rev, h)[b].code
                  /\ \A e \in Range(Get(rev, h)) :
                        [code |-> h, similarity |-> e.similarity]
                           \in EntriesOf(fwd, e.code)
            /\ \A u \in Keys(fwd) :
                  \A e \in Range(Get(fwd, u)) :
                      [code |-> u, similarity |-> e.similarity]
                         \in EntriesOf(rev, e.code)

\* The mapping is written with a subheading that is the match of four
\* commodities: its reverse list has four entries, and its first entry is not
\* the commodity whose best match it is; a fourth subheading, at or above the
\* threshold for every commodity but retained by none, has no reverse list.
C11_Witness ==
    /\ FuzzyWritten
    /\ \E h \in Keys(FuzzyDoc.hsToUnspsc), u \in Keys(FuzzyDoc.unspscToHs) :
          /\ Len(Get(FuzzyDoc.hsToUnspsc, h)) > TOP_N
          /\ Get(FuzzyDoc.unspscToHs, u)[1].code = h
          /\ Get(FuzzyDoc.hsToUnspsc, h)[1].code # u
          /\ \E v \in Keys(FuzzyDoc.unspscToHs) :
                /\ Len(Get(FuzzyDoc.unspscToHs, v)) = TOP_N
                /\ \E g \in 1..Len(st.hs_items.keys) :
                      /\ \A w \in 1..Len(st.unspsc_items.keys) : Accepted(w, g)
                      /\ ~Has(FuzzyDoc.hsToUnspsc, st.hs_items.keys[g])

\* ------------------------------------------------------------------------
\* C12
\* ------------------------------------------------------------------------
T2Written == gen = "t2" /\ pc = "done"

\* The grafted detail nodes of the written composite tree.
Grafted ==
    { n \in Reachable(files["t2-tree.json"]) :
        StartsWith(files["t2-tree.json"].heap[n].id, <<"t2-", "hts-">>) }

\* The code of a grafted node; grafting leaves it as it was in the HTS tree.
GraftedCode(n) == files["t2-tree.json"].heap[n].code

HtsKey(n) == <<"HTS">> \o CleanCode(GraftedCode(n))

\* The keys of the composite lookup whose entry has the given origin.
KeysOfOrigin(origin) ==
    { k \in Keys(files["t2-lookup.json"]) : Get(files["t2-lookup.json"], k).origin = origin }

\* Every grafted node has its entry under 'HTS' + its code without dots, with
\* origin 'hts' and that code as originalCode; every other 'hts' entry is none.
GraftedAreTagged ==
    /\ \A n \in Grafted :
          /\ Has(files["t2-lookup.json"], HtsKey(n))
          /\ Get(files["t2-lookup.json"], HtsKey(n)).origin = "hts"
          /\ Get(files["t2-lookup.json"], HtsKey(n)).originalCode
                = CleanCode(GraftedCode(n))
    /\ KeysOfOrigin("hts") = { HtsKey(n) : n \in Grafted }

\* Every backbone entry is under its CPC key, with origin 'cpc' added.
BackboneIsKept ==
    /\ KeysOfOrigin("cpc") = Keys(st.cpc_lookup)
    /\ \A k \in Keys(st.cpc_lookup) :
          Get(files["t2-lookup.json"], k) = WithOrigin(Get(st.cpc_lookup, k), "cpc")

\* C12 (as stated): the lookup written by generate_taxonomy2 has one entry per
\* grafted detail node, keyed 'HTS' + its code, with origin 'hts' and
\* originalCode the node's code; every backbone entry keeps its CPC key and has
\* origin 'cpc'.
C12_CompositeTaggingAsStated ==
    T2Written =>
        /\ GraftedAreTagged
        /\ Cardinality(KeysOfOrigin("hts")) = Cardinality(Grafted)
        /\ BackboneIsKept

\* C12 (amended): the lookup written by generate_taxonomy2 has one entry per
\* distinct code of the grafted detail nodes, keyed 'HTS' + that code without
\* dots and spaces, with origin 'hts' and originalCode that stripped code; the
\* grafts of one HTS node under several leaves share the entry, which is the
\* one of the first of them in tree order; every backbone entry keeps its CPC
\* key and has origin 'cpc'.
C12_CompositeTagging ==
    T2Written =>
        /\ GraftedAreTagged
        /\ \A k \in KeysOfOrigin("hts") :
              LET first == CHOOSE i \in 1..Len(Walk(st.heap, st.t2_tree)) :
                              /\ Walk(st.heap, st.t2_tree)[i] \in
                                    { n \in Range(Walk(st.heap, st.t2_tree)) :
                                        /\ StartsWith(st.heap[n].id, <<"t2-", "hts-">>)
                                        /\ <<"HTS">> \o CleanCode(st.heap[n].code) = k }
                              /\ \A j \in 1..(i - 1) :
                                    ~(/\ StartsWith(st.heap[Walk(st.heap, st.t2_tree)[j]].id,
                                                    <<"t2-", "hts-">>)
                                      /\ <<"HTS">> \o CleanCode(
                                            st.heap[Walk(st.heap, st.t2_tree)[j]].code) = k)
                  node == st.heap[Walk(st.heap, st.t2_tree)[first]]
              IN  /\ Get(files["t2-lookup.json"], k).code = node.code
                  /\ Get(files["t2-lookup.json"], k).description = node.name
        /\ BackboneIsKept

\* The composite lookup is written for a tree in which the HTS node 0101.21 is
\* grafted under two leaves, the second graft with the suffix -d2: the two
\* nodes share the entry HTS010121.
C12_Witness ==
    /\ T2Written
    /\ \E m, n \in Grafted :
          /\ m # n
          /\ GraftedCode(m) = <<"0", "1", "0", "1", ".", "2", "1">>
          /\ GraftedCode(n) = GraftedCode(m)
          /\ files["t2-tree.json"].heap[n].id = <<"t2-", "hts-", "0", "1", "0", "1", "2", "1", "-d", "2">>
          /\ Get(files["t2-lookup.json"], HtsKey(m)).originalCode
                = <<"0", "1", "0", "1", "2", "1">>

\* ------------------------------------------------------------------------
\* C13
\* ------------------------------------------------------------------------
\* The lookup file of the six taxonomy generators.
LookupFile ==
    [hs |-> "hs-lookup.json", cpc |-> "cpc-lookup.json", cn |-> "cn-lookup.json",
     hts |-> "hts-lookup.json", ca |-> "ca-lookup.json",
     unspsc |-> "unspsc-lookup.json"]

\* A taxonomy generator has finished and written its lookup.
TaxonomyDone ==
    gen \in DOMAIN LookupFile /\ pc = "done" /\ LookupFile[gen] \in DOMAIN files

\* The codes of the input records of the run that pass the generator's
\* normalization and are not empty, as a lookup keys them; the records of
\* sections are left out.
InputCodes ==
    CASE gen = "hs"  -> { rows[k].hscode : k \in 1..Len(rows) } \ {<<>>}
      [] gen = "cpc" -> { rows[k].code : k \in 1..Len(rows) } \ {<<>>}
      [] gen = "cn"  ->
            { CleanCode(rows[k].cn) :
                k \in { j \in 1..Len(rows) :
                          /\ ~rows[j].titleRow /\ ~IsRoman(rows[j].cn)
                          /\ rows[j].cn # <<>> } }
      [] gen = "hts" ->
            { rows[k].htsno :
                k \in { j \in 1..Len(rows) :
                          rows[j].htsno # <<>> /\ rows[j].description # <<>> } }
      [] gen = "ca"  ->
            { rows[k].tariff :
                k \in { j \in 1..Len(rows) :
                          \/ MatchesDotted(rows[j].tariff, <<2, 2>>)
                          \/ MatchesDotted(rows[j].tariff, <<4, 1>>)
                          \/ MatchesDotted(rows[j].tariff, <<4, 2, 2>>)
                          \/ MatchesDotted(rows[j].tariff, <<4, 2, 2, 2>>) } }
      [] gen = "unspsc" ->
            { Take(rows[k].com, 8) : k \in 1..Len(rows) } \ {<<>>}
      [] OTHER -> {}

\* C13: for every taxonomy generator, every input record that passes
\* normalization and has a non-empty code has an entry in the written lookup,
\* also when its parent or section cannot be resolved and the record is
\* therefore absent from the tree.
C13_LookupComplete ==
    TaxonomyDone => InputCodes \subseteq Keys(files[LookupFile[gen]])

\* generate_cn has written its files for a sheet with the heading 0101 and no
\* chapter 01: the heading is in no tree and has no lookup entry.
C13_Witness ==
    /\ gen = "cn" /\ pc = "done"
    /\ <<"0", "1", "0", "1">> \in InputCodes
    /\ <<"0", "1">> \notin InputCodes
    /\ <<"0", "1", "0", "1">> \notin Keys(files["cn-lookup.json"])
    /\ <<"0", "1", "0", "1">> \notin TreeCodes(files["cn-tree.json"])

\* ------------------------------------------------------------------------
\* C14
\* ------------------------------------------------------------------------
\* The entry under key k is keyed by, or describes, a top-level group node: a
\* roman-numeral section, a CPC section or a UNSPSC segment.
TopGroupEntry(lookup, k) ==
    \/ IsRoman(k)
    \/ Get(lookup, k).type \in {"section", "segment"}

\* C14: in the lookup written by each taxonomy generator no entry is keyed by,
\* or describes, a section or other top-level group node, and no entry has the
\* empty code as key.
C14_NoTopGroupsInLookup ==
    TaxonomyDone =>
        \A k \in Keys(files[LookupFile[gen]]) :
            k # <<>> /\ ~TopGroupEntry(files[LookupFile[gen]], k)

\* generate_cn has written a lookup that holds the entry of section I, of type
\* 'section', next to the entry of chapter 01.
C14_Witness ==
    /\ gen = "cn" /\ pc = "done"
    /\ Has(files["cn-lookup.json"], I_)
    /\ Get(files["cn-lookup.json"], I_).type = "section"
    /\ Has(files["cn-lookup.json"], <<"0", "1">>)

\* ------------------------------------------------------------------------
\* C15
\* ------------------------------------------------------------------------
ConcordanceWritten == gen = "concordance" /\ pc = "done" /\ st.exists

\* The total number of entries of a multimap.
RECURSIVE TotalEntries(_, _)
TotalEntries(d, k) ==
    IF k > Len(d.val) THEN 0 ELSE Len(d.val[k]) + TotalEntries(d, k + 1)

\* The rows whose stripped HS code is A / whose CPC code is B.
RowsOfHs(A) == { k \in 1..Len(rows) : Strip(rows[k].hs, ".") = A }

RowsOfCpc(B) == { k \in 1..Len(rows) : rows[k].cpc = B }

\* C15: a declared pair repeated k times contributes k entries to hsToCpc[A]
\* and k entries to cpcToHs[B]: the length of hsToCpc[A] is the number of rows
\* whose stripped HS code is A, the length of cpcToHs[B] the number of rows
\* whose CPC code is B, and the numbers of forward entries, of reverse entries
\* and of rows are the same.
C15_NoDeduplication ==
    ConcordanceWritten =>
        LET doc == files["concordance.json"]
        IN  /\ Keys(doc.hsToCpc) = { Strip(rows[k].hs, ".") : k \in 1..Len(rows) }
            /\ Keys(doc.cpcToHs) = { rows[k].cpc : k \in 1..Len(rows) }
            /\ \A A \in Keys(doc.hsToCpc) :
                  /\ Len(Get(doc.hsToCpc, A)) = Cardinality(RowsOfHs(A))
                  /\ \A B \in Keys(doc.cpcToHs) :
                        Cardinality({ i \in 1..Len(Get(doc.hsToCpc, A)) :
                                        Get(doc.hsToCpc, A)[i].code = B })
                           = Cardinality(RowsOfHs(A) \cap RowsOfCpc(B))
            /\ \A B \in Keys(doc.cpcToHs) :
                  /\ Len(Get(doc.cpcToHs, B)) = Cardinality(RowsOfCpc(B))
                  /\ \A A \in Keys(doc.hsToCpc) :
                        Cardinality({ i \in 1..Len(Get(doc.cpcToHs, B)) :
                                        Get(doc.cpcToHs, B)[i].code = A })
                           = Cardinality(RowsOfHs(A) \cap RowsOfCpc(B))
            /\ TotalEntries(doc.hsToCpc, 1) = Len(rows)
            /\ TotalEntries(doc.cpcToHs, 1) = Len(rows)

\* A concordance is written for a file that declares one pair three times, with
\* the same flags: both lists hold three equal entries.
C15_Witness ==
    /\ ConcordanceWritten
    /\ Len(rows) = 3 /\ rows[1] = rows[2] /\ rows[2] = rows[3]
    /\ Len(Get(files["concordance.json"].hsToCpc, Strip(rows[1].hs, "."))) = 3
    /\ Len(Get(files["concordance.json"].cpcToHs, rows[1].cpc)) = 3

\* ------------------------------------------------------------------------
\* C16
\* ------------------------------------------------------------------------
\* generate_taxonomy2 has grafted the detail.
T2Grafted == gen = "t2" /\ pc \in {"attached", "done"}

\* The nodes of the loaded HTS tree, depth first, and their stripped codes.
HtsOrder == Walk(st.heap, st.hts_tree)

CleanAt(i) == CleanCode(st.heap[HtsOrder[i]].code)

\* The HTS node that holds the stripped code c: the one visited last.
LastWith(c) ==
    HtsOrder[Max({ i \in 1..Len(HtsOrder) : CleanAt(i) = c })]

\* The HTS nodes of n digits whose stripped code starts with hs, one per code,
\* in the order in which the codes first appear.
WithPrefix(hs, n) ==
    LET first == SelectSeq([i \in 1..Len(HtsOrder) |-> i],
                           LAMBDA i : /\ Len(CleanAt(i)) = n
                                      /\ StartsWith(CleanAt(i), hs)
                                      /\ \A j \in 1..(i - 1) : CleanAt(j) # CleanAt(i))
    IN  [k \in 1..Len(first) |-> LastWith(CleanAt(first[k]))]

\* The result of one step (a) .. (d) for the HS code hs.
StepResult(hs, step) ==
    CASE step = 1 -> IF \E i \in 1..Len(HtsOrder) : CleanAt(i) = hs
                     THEN <<LastWith(hs)>> ELSE <<>>
      [] step = 2 -> IF \E i \in 1..Len(HtsOrder) : CleanAt(i) = hs \o <<"0", "0">>
                     THEN <<LastWith(hs \o <<"0", "0">>)>> ELSE <<>>
      [] step = 3 -> WithPrefix(hs, 8)
      [] step = 4 -> WithPrefix(hs, 10)

Min(S) == CHOOSE x \in S : \A y \in S : x <= y

\* The first non-empty result of the steps in order, or none.
FirstNonEmpty(hs) ==
    IF \E s \in 1..4 : StepResult(hs, s) # <<>>
    THEN StepResult(hs, Min({ s \in 1..4 : StepResult(hs, s) # <<>> }))
    ELSE <<>>

\* The results for the mappings of a leaf, in concordance order.
RECURSIVE ResultsFor(_)
ResultsFor(hs_mappings) ==
    IF hs_mappings = <<>> THEN <<>>
    ELSE FirstNonEmpty(Head(hs_mappings).code) \o ResultsFor(Tail(hs_mappings))

\* Codes, names and types of a node and of everything below it, depth first,
\* with the number of children of each.
Shape(n) ==
    LET order == Walk(st.heap, <<n>>)
    IN  [k \in 1..Len(order) |->
           [code |-> st.heap[order[k]].code, name |-> st.heap[order[k]].name,
            type |-> st.heap[order[k]].type,
            children |-> IF st.heap[order[k]].hasChildren
                         THEN Len(st.heap[order[k]].children) ELSE 0]]

IsGraft(n) == StartsWith(st.heap[n].id, <<"t2-", "hts-">>)

\* The backbone leaves that lie under a goods section: backbone nodes of the
\* composite tree none of whose children is a backbone node.
GoodsLeaves ==
    { n \in UNION { Range(Walk(st.heap, <<r>>)) :
                      r \in { q \in Range(st.t2_tree) :
                                st.heap[q].code \in goods_section_codes } } :
        /\ ~IsGraft(n)
        /\ \A c \in Range(st.heap[n].children) : IsGraft(c) }

\* C16: for each HS code mapped to a backbone leaf that takes detail,
\* extract_hts_for_hs returns the first non-empty result of (a) the HTS node
\* with that stripped code, (b) the node with that code + '00', (c) all 8-digit
\* HTS nodes with that prefix, (d) all 10-digit HTS nodes with that prefix; the
\* leaf has the results of its mappings as its children, in concordance order,
\* and has no children field when every result is empty.
C16_MatchOrder ==
    T2Grafted =>
        \A n \in GoodsLeaves :
            LET hs_mappings == IF Has(st.cpc_to_hs, st.heap[n].code)
                               THEN Get(st.cpc_to_hs, st.heap[n].code) ELSE <<>>
                results == ResultsFor(hs_mappings)
            IN  IF results = <<>> THEN ~st.heap[n].hasChildren
                ELSE /\ st.heap[n].hasChildren
                     /\ Len(st.heap[n].children) = Len(results)
                     /\ \A k \in 1..Len(results) :
                           Shape(st.heap[n].children[k]) = Shape(results[k])

\* Detail is grafted from an HTS tree that holds 0101.21.10, 0101.21.20 and a
\* 10-digit line, but neither 0101.21 nor 0101.21.00: step (c)
\* gives the leaf 01 the two 8-digit nodes as children, and the leaf 02, which
\* no row maps, stays a leaf.
C16_Witness ==
    /\ T2Grafted
    /\ \E n, m \in GoodsLeaves :
          /\ st.heap[n].code = <<"0", "1">> /\ st.heap[m].code = <<"0", "2">>
          /\ ~st.heap[m].hasChildren
          /\ StepResult(<<"0", "1", "0", "1", "2", "1">>, 1) = <<>>
          /\ StepResult(<<"0", "1", "0", "1", "2", "1">>, 2) = <<>>
          /\ StepResult(<<"0", "1", "0", "1", "2", "1">>, 4) # <<>>
          /\ Len(st.heap[n].children) = 2
          /\ \A c \in Range(st.heap[n].children) : Len(CleanCode(st.heap[c].code)) = 8

\* ------------------------------------------------------------------------
\* C17
\* ------------------------------------------------------------------------
\* The nodes below a root list, depth first, as they are written: every field,
\* with the number of children in place of the children.
Contents(heap, nodes) ==
    LET order == Walk(heap, nodes)
    IN  [k \in 1..Len(order) |->
           [id |-> heap[order[k]].id, code |-> heap[order[k]].code,
            name |-> heap[order[k]].name, type |-> heap[order[k]].type,
            hasChildren |-> heap[order[k]].hasChildren,
            children |-> Len(heap[order[k]].children)]]

\* No node object is met twice on the walk below the root list.
NoSharedNode(heap, nodes) ==
    \A i, j \in 1..Len(Walk(heap, nodes)) :
        i # j => Walk(heap, nodes)[i] # Walk(heap, nodes)[j]

\* C17: in generate_taxonomy2 every grafted node is an independent copy: no
\* node object is shared between two grafts, with the loaded HTS tree or with
\* the loaded CPC tree, so after re-keying and suffixing the loaded HTS tree is
\* as it was read, all its ids still beginning with 'hts-', and the loaded CPC
\* tree is as it was read.
C17_DeepCopyOnGraft ==
    T2Grafted =>
        /\ NoSharedNode(st.heap, st.t2_tree)
        /\ Range(Walk(st.heap, st.t2_tree)) \cap Range(Walk(st.heap, st.hts_tree)) = {}
        /\ Range(Walk(st.heap, st.t2_tree)) \cap Range(Walk(st.heap, st.cpc_tree)) = {}
        /\ Contents(st.heap, st.hts_tree)
              = Contents(files["hts-tree.json"].heap, files["hts-tree.json"].tree)
        /\ \A n \in Range(Walk(st.heap, st.hts_tree)) :
              StartsWith(st.heap[n].id, <<"hts-">>)
        /\ Contents(st.heap, st.cpc_tree)
              = Contents(files["cpc-tree.json"].heap, files["cpc-tree.json"].tree)

\* The HTS node 0101.21 with a line below it is grafted under the leaves 01 and
\* 02: the first graft has the ids t2-hts-010121 and t2-hts-01012100, the
\* second the same with -d2, and the HTS tree still has hts-010121.
C17_Witness ==
    /\ T2Grafted
    /\ \E a, b \in Range(Walk(st.heap, st.t2_tree)), h \in Range(Walk(st.heap, st.hts_tree)) :
          /\ st.heap[a].id = <<"t2-", "hts-", "0", "1", "0", "1", "2", "1">>
          /\ st.heap[b].id = <<"t2-", "hts-", "0", "1", "0", "1", "2", "1", "-d", "2">>
          /\ st.heap[h].id = <<"hts-", "0", "1", "0", "1", "2", "1">>
          /\ st.heap[a].hasChildren /\ st.heap[b].hasChildren /\ st.heap[h].hasChildren
          /\ st.heap[st.heap[b].children[1]].id
                = <<"t2-", "hts-", "0", "1", "0", "1", "2", "1", "0", "0", "-d", "2">>

\* ------------------------------------------------------------------------
\* C18
\* ------------------------------------------------------------------------
T1Written == gen = "t1" /\ pc = "done"

\* The id with the namespace prefix old replaced by the tokens new.
Rekeyed(id, old, new) == IF id # <<>> /\ id[1] = old THEN new \o Tail(id) ELSE id

\* Contents with every id re-keyed.
RekeyedContents(heap, nodes, old, new) ==
    [k \in 1..Len(Contents(heap, nodes)) |->
       [Contents(heap, nodes)[k] EXCEPT !.id = Rekeyed(@, old, new)]]

\* The roots of the CPC document whose code is one of '5' .. '9', in order.
ServiceRoots(doc) ==
    SelectSeq(doc.tree, LAMBDA r : doc.heap[r].code \in
                                     { <<"5">>, <<"6">>, <<"7">>, <<"8">>, <<"9">> })

\* C18: the root list written by generate_taxonomy1 is all HTS roots in their
\* order followed by exactly the CPC roots whose code is one of '5' .. '9' in
\* their order, the subtrees unchanged in shape, codes and names; an id that
\* began with 'hts-' begins with 't1-', one that began with 'cpc-' with
\* 't1-svc-'; the loaded trees are not modified.
C18_SiblingTree ==
    T1Written =>
        LET doc == files["t1-tree.json"]
            hts == files["hts-tree.json"]
            cpc == files["cpc-tree.json"]
        IN  /\ Len(doc.tree) = Len(hts.tree) + Len(ServiceRoots(cpc))
            /\ Contents(doc.heap, doc.tree)
                  = RekeyedContents(hts.heap, hts.tree, "hts-", <<"t1-">>)
                    \o RekeyedContents(cpc.heap, ServiceRoots(cpc), "cpc-",
                                       <<"t1-", "svc-">>)
            /\ Contents(st.heap, st.hts_tree) = Contents(hts.heap, hts.tree)
            /\ Contents(st.heap, st.cpc_tree) = Contents(cpc.heap, cpc.tree)
            /\ NoSharedNode(st.heap, st.hts_tree \o st.cpc_tree \o st.combined_tree)

\* The combined tree is written for an HTS tree with the heading 0101 and a
\* subheading and a CPC tree with the sections 0 and 5: after the HTS roots
\* comes t1-svc-5 with its child t1-svc-51, and no node of section 0.
C18_Witness ==
    /\ T1Written
    /\ LET doc == files["t1-tree.json"]
       IN  /\ \E n \in Reachable(doc) :
                 doc.heap[n].id = <<"t1-", "0", "1", "0", "1", "2", "1">>
           /\ \E r \in Range(files["cpc-tree.json"].tree) :
                 files["cpc-tree.json"].heap[r].code = <<"0">>
           /\ doc.heap[doc.tree[Len(doc.tree)]].id = <<"t1-", "svc-", "5">>
           /\ doc.heap[doc.heap[doc.tree[Len(doc.tree)]].children[1]].id
                 = <<"t1-", "svc-", "5", "1">>
           /\ \A n \in Reachable(doc) : doc.heap[n].code # <<"0">>

\* ------------------------------------------------------------------------
\* C19
\* ------------------------------------------------------------------------
\* The keys of the HTS lookup and the keys of the CPC lookup whose entry has a
\* section in '5' .. '9'.
ServiceKeys ==
    { k \in Keys(files["cpc-lookup.json"]) :
        Get(files["cpc-lookup.json"], k).section \in
           { <<"5">>, <<"6">>, <<"7">>, <<"8">>, <<"9">> } }

\* The codes of the nodes of the composed tree that came from the CPC tree.
ServiceCodesInTree ==
    { files["t1-tree.json"].heap[n].code :
        n \in { m \in Reachable(files["t1-tree.json"]) :
                  StartsWith(files["t1-tree.json"].heap[m].id, <<"t1-", "svc-">>) } }

\* The lookup is the HTS lookup with origin 'hts' and the service entries of the
\* CPC lookup under 'SVC' + key with origin 'cpc' and originalCode, and
\* nothing else.
LookupIsUnion ==
    LET lookup == files["t1-lookup.json"]
        hts    == files["hts-lookup.json"]
        cpc    == files["cpc-lookup.json"]
    IN  /\ Keys(lookup) = Keys(hts) \cup { <<"SVC">> \o k : k \in ServiceKeys }
        /\ \A k \in Keys(hts) : Get(lookup, k) = WithOrigin(Get(hts, k), "hts")
        /\ \A k \in ServiceKeys :
              Get(lookup, <<"SVC">> \o k) = WithOriginalCode(Get(cpc, k), "cpc", k)

\* C19: the lookup written by generate_taxonomy1 holds every HTS lookup entry
\* under its native key with origin 'hts', every CPC lookup entry whose section
\* is in '5' .. '9' under 'SVC' + its key with origin 'cpc' and originalCode
\* that key, and nothing else; no CPC entry overwrites an HTS entry; and the
\* CPC entries present are exactly the codes of the CPC nodes of the composed
\* tree.
C19_SiblingLookup ==
    T1Written =>
        /\ LookupIsUnion
        /\ ServiceKeys = ServiceCodesInTree

\* The combined lookup is written for a CPC file with the division 61 and no
\* section 6: the lookup has the entry SVC61, the composed tree no node 61,
\* next to the entry SVC51 of a node that is in the tree.
C19_Witness ==
    /\ T1Written
    /\ Has(files["t1-lookup.json"], <<"SVC", "6", "1">>)
    /\ Get(files["t1-lookup.json"], <<"SVC", "6", "1">>).originalCode = <<"6", "1">>
    /\ <<"6", "1">> \notin ServiceCodesInTree
    /\ Has(files["t1-lookup.json"], <<"SVC", "5", "1">>)
    /\ <<"5", "1">> \in ServiceCodesInTree

\* ------------------------------------------------------------------------
\* C20
\* ------------------------------------------------------------------------
HsWritten == gen = "hs" /\ pc = "done"

\* The k-th row is a chapter, heading or subheading record.
HsRecord(k) == rows[k].level \in {"2", "4", "5", "6"}

\* The record of the k-th row is in the children of a node with the given
\* code.
HsChildOf(k, code) ==
    \E p \in 1..Len(st.heap) :
        /\ st.heap[p].code = code
        /\ \E c \in Range(st.heap[p].children) :
              /\ st.heap[c].code = rows[k].hscode
              /\ st.heap[c].name = rows[k].description

\* The node named by the parent field of the k-th row exists when the row is
\* processed: an earlier row made a chapter or heading with that code.
HsParentExists(k) ==
    \E j \in 1..(k - 1) :
        rows[j].hscode = rows[k].parent /\ rows[j].level \in {"2", "4"}

\* The section stated by the k-th row has a node in the tree.
HsSectionExists(k) ==
    \E r \in Range(files["hs-tree.json"].tree) :
        files["hs-tree.json"].heap[r].code = rows[k].section

\* C20: in generate_hs each chapter, heading and subheading record is appended
\* to the children of the node named by its parent field when that node
\* exists, and is otherwise attached under its stated section instead of being
\* left out of the tree.
C20_ExplicitParentAssembly ==
    HsWritten =>
        \A k \in 1..Len(rows) :
            HsRecord(k) =>
                IF HsParentExists(k) THEN HsChildOf(k, rows[k].parent)
                ELSE HsSectionExists(k) => HsChildOf(k, rows[k].section)

\* generate_hs has written the tree for rows with the heading 0101 of section
\* I and no chapter 01: the tree has the node of section I, and the heading is
\* below no node of it.
C20_Witness ==
    /\ HsWritten
    /\ \E k \in 1..Len(rows) :
          /\ rows[k].level = "4" /\ rows[k].section = I_
          /\ ~HsParentExists(k) /\ HsSectionExists(k)
          /\ ~HsChildOf(k, rows[k].section)
          /\ \A n \in Reachable(files["hs-tree.json"]) :
                files["hs-tree.json"].heap[n].code # rows[k].hscode

\* ------------------------------------------------------------------------
\* C21
\* ------------------------------------------------------------------------
\* The step processes one more item of raw, one that has a description.
HtsRecordStep ==
    /\ gen = "hts" /\ pc = "rows" /\ pc' = "rows"
    /\ Len(rows') = Len(rows) + 1
    /\ rows'[Len(rows')].description # <<>>

\* The item is a heading, a subheading or a group, or has the 'superior' flag.
HtsContainer(item) ==
    \/ item.superior
    \/ Len(Strip(item.htsno, ".")) \notin {8, 10}

\* The entries of the stack with an indent smaller than that of the item: what
\* popping leaves.
LeftAfterPop(stack, item) ==
    { i \in 1..Len(stack) : stack[i].indent < item.indent }

\* C21: in generate_hts a record is pushed on the indent stack only if it is a
\* heading, a subheading, a group or has a truthy 'superior' flag; a tariff_8
\* or tariff_10 record without the flag never has children, and the record
\* that follows it is attached to the stack top left after popping, an earlier
\* container, and not to that record.
C21_ContainerOnlyStack ==
    [][HtsRecordStep =>
          LET item == rows'[Len(rows')]
              me   == Len(st.heap) + 1
              left == LeftAfterPop(st.stack, item)
              kept == IF left = {} THEN <<>> ELSE SubSeq(st.stack, 1, Max(left))
          IN  /\ Len(st'.heap) = me
              /\ st'.heap[me].hasChildren <=> HtsContainer(item)
              /\ st'.stack = IF HtsContainer(item)
                             THEN Append(kept, [indent |-> item.indent, node |-> me])
                             ELSE kept
              /\ left # {} => Parents(st'.heap, me) = { st.stack[Max(left)].node }
              /\ \A n \in 1..Len(st.heap) :
                    ~st.heap[n].hasChildren =>
                        ~st'.heap[n].hasChildren /\ st'.heap[n].children = <<>>]_vars

\* The heading 0101, the subheading 0101.21, the tariff line 0101.21.00 without
\* the flag and a 10-digit line of larger indent have been processed: the
\* 10-digit line is a child of the subheading, the tariff line has no child
\* and is not on the stack.
C21_Witness ==
    /\ gen = "hts" /\ pc = "rows" /\ Len(rows) = 4
    /\ \A k \in 1..4 : rows[k].description # <<>> /\ ~rows[k].superior
    /\ [k \in 1..4 |-> Len(Strip(rows[k].htsno, "."))] = <<4, 6, 8, 10>>
    /\ [k \in 1..4 |-> rows[k].indent] = <<0, 1, 2, 3>>
    /\ Parents(st.heap, HtsNodeOf(4)) = { HtsNodeOf(2) }
    /\ st.heap[HtsNodeOf(3)].children = <<>>
    /\ [k \in 1..Len(st.stack) |-> st.stack[k].node] = <<HtsNodeOf(1), HtsNodeOf(2)>>

\* ------------------------------------------------------------------------
\* C22
\* ------------------------------------------------------------------------
\* The node made for the k-th row of generate_cn or generate_canadian: the one
\* that carries the row's description.
NodeOfRow(k) == CHOOSE n \in 1..Len(st.heap) : st.heap[n].name = rows[k].description

\* The k-th row has a node in the written tree of the generator.
RowReachable(k, file) ==
    \E n \in Reachable(files[file]) : files[file].heap[n].name = rows[k].description

\* Earlier rows of generate_cn with the given number shape whose code is the
\* first n digits of the code of the k-th row.
CnSeen(k, widths, n) ==
    { j \in 1..(k - 1) :
        /\ MatchesGroups(rows[j].cn, widths)
        /\ CleanCode(rows[j].cn) = Take(CleanCode(rows[k].cn), n) }

\* Earlier rows of generate_canadian with the given number shape whose code
\* without dots is a prefix of the first n digits of the k-th row's.
CaSeen(k, widths, n) ==
    { j \in 1..(k - 1) :
        /\ MatchesDotted(rows[j].tariff, widths)
        /\ StartsWith(Take(Strip(rows[k].tariff, "."), n), Strip(rows[j].tariff, ".")) }

\* The row the k-th row, an 8-digit record, is attached to; 0 when to none.
FallbackParent(k) ==
    IF gen = "cn"
    THEN IF CnSeen(k, <<4, 2>>, 6) # {} THEN Max(CnSeen(k, <<4, 2>>, 6))
         ELSE IF CnSeen(k, <<4>>, 4) # {} THEN Max(CnSeen(k, <<4>>, 4))
         ELSE 0
    ELSE IF CaSeen(k, <<4, 1>>, 6) # {} THEN Max(CaSeen(k, <<4, 1>>, 6))
         ELSE IF CaSeen(k, <<2, 2>>, 4) # {} THEN Max(CaSeen(k, <<2, 2>>, 4))
         ELSE 0

\* The 8-digit records of the run.
EightDigitRows ==
    { k \in 1..Len(rows) :
        IF gen = "cn" THEN ~rows[k].titleRow /\ MatchesGroups(rows[k].cn, <<4, 2, 2>>)
        ELSE MatchesDotted(rows[k].tariff, <<4, 2, 2>>) }

\* Every 8-digit record is in the children of its fallback parent and of no
\* other node.
AttachedByPrefix ==
    \A k \in EightDigitRows :
        Parents(st.heap, NodeOfRow(k))
           = IF FallbackParent(k) = 0 THEN {} ELSE { NodeOfRow(FallbackParent(k)) }

\* C22: in generate_canadian an 8-digit record is attached to the longest
\* previously seen group code that is a prefix of its 6-digit code, else to
\* its 4-digit heading if seen; in generate_cn to its 6-digit subheading if
\* seen, else to its 4-digit heading; in both, a record attached this way is
\* reachable from the root list of the written tree.
C22_LongestPrefixFallback ==
    (gen \in {"cn", "ca"} /\ pc = "done") =>
        /\ AttachedByPrefix
        /\ \A k \in EightDigitRows :
              FallbackParent(k) # 0 =>
                 RowReachable(k, IF gen = "cn" THEN "cn-tree.json" ELSE "ca-tree.json")

\* generate_cn has written the tree for a sheet with the heading 0101, no
\* chapter 01 and the code 0101 21 00 without its subheading: the code is a
\* child of the heading, and neither is in the written tree.
C22_Witness ==
    /\ gen = "cn" /\ pc = "done"
    /\ \E k \in EightDigitRows :
          /\ CnSeen(k, <<4, 2>>, 6) = {}
          /\ FallbackParent(k) # 0
          /\ NodeOfRow(k) \in Range(st.heap[NodeOfRow(FallbackParent(k))].children)
          /\ ~RowReachable(k, "cn-tree.json")
          /\ ~RowReachable(FallbackParent(k), "cn-tree.json")

\* ------------------------------------------------------------------------
\* C23
\* ------------------------------------------------------------------------
\* str.islower(): at least one cased character and no upper-case one.
FullyLower(s) ==
    /\ \E i \in 1..Len(s) : IsCased(s[i])
    /\ \A i \in 1..Len(s) : IsCased(s[i]) => IsLower(s[i])

\* The section nodes made from the section table by the generator running.
TableSections ==
    { n \in 1..Len(st.heap) :
        /\ st.heap[n].type = "section"
        /\ Has(st.sections, st.heap[n].code) }

\* C23: when generate_hs, generate_hts and generate_canadian create section
\* nodes, a section name that is fully lower-case is title-cased, and every
\* section name that is not fully lower-case (whatever the case of its first
\* character) is stored unchanged.
C23_SectionLabelCasing ==
    gen \in {"hs", "hts", "ca"} =>
        \A n \in TableSections :
            LET section_name == Get(st.sections, st.heap[n].code)
            IN  st.heap[n].name = IF FullyLower(section_name)
                                  THEN TitleFrom(section_name, FALSE)
                                  ELSE section_name

\* A section named "aB" in the table has the node name "Ab".
C23_Witness ==
    /\ gen \in {"hs", "hts", "ca"}
    /\ \E n \in TableSections :
          /\ Get(st.sections, st.heap[n].code) = <<"a", "B">>
          /\ st.heap[n].name = <<"A", "b">>

\* ------------------------------------------------------------------------
\* C24
\* ------------------------------------------------------------------------
\* The tree and the lookup written by the generators that index the tree.
WalkedTree ==
    [hts |-> "hts-tree.json", cn |-> "cn-tree.json", ca |-> "ca-tree.json",
     t2 |-> "t2-tree.json"]

WalkedLookup ==
    [hts |-> "hts-lookup.json", cn |-> "cn-lookup.json", ca |-> "ca-lookup.json",
     t2 |-> "t2-lookup.json"]

\* One of them has finished and written both.
WalkedDone ==
    /\ gen \in DOMAIN WalkedTree /\ pc = "done"
    /\ WalkedTree[gen] \in DOMAIN files /\ WalkedLookup[gen] \in DOMAIN files

\* The written tree in the order the indexer visits it.
WalkedOrder == Walk(files[WalkedTree[gen]].heap, files[WalkedTree[gen]].tree)

VisitedNode(i) == files[WalkedTree[gen]].heap[WalkedOrder[i]]

\* The i-th visited node gets an entry, and the key of the entry.
Indexed(i) ==
    CASE gen = "t2" -> StartsWith(VisitedNode(i).id, <<"t2-", "hts-">>)
      [] gen = "cn" -> TRUE
      [] OTHER      -> VisitedNode(i).code # <<>> /\ VisitedNode(i).type # "section"

KeyOfVisited(i) ==
    IF gen = "t2" THEN <<"HTS">> \o CleanCode(VisitedNode(i).code)
    ELSE VisitedNode(i).code

\* The i-th visited node opens a section.
OpensSection(i) ==
    IF gen = "t2"
    THEN /\ ~StartsWith(VisitedNode(i).id, <<"t2-", "hts-">>)
         /\ Len(Strip(VisitedNode(i).id, "t2-")) = 1
    ELSE VisitedNode(i).type = "section"

\* The section the i-th visited node is in.
SectionOfVisited(i) ==
    LET opened == { p \in 1..i : OpensSection(p) }
    IN  IF opened = {} THEN <<>>
        ELSE IF gen = "t2" THEN Strip(VisitedNode(Max(opened)).id, "t2-")
        ELSE VisitedNode(Max(opened)).code

\* The nodes visited with the key of the i-th.
SameKey(i) ==
    { j \in 1..Len(WalkedOrder) : Indexed(j) /\ KeyOfVisited(j) = KeyOfVisited(i) }

\* The entry of the key of the i-th visited node is that of visited node j.
EntryIsOf(i, j) ==
    /\ Has(files[WalkedLookup[gen]], KeyOfVisited(i))
    /\ LET entry == Get(files[WalkedLookup[gen]], KeyOfVisited(i))
       IN  /\ entry.description = VisitedNode(j).name
           /\ entry.type = VisitedNode(j).type
           /\ entry.section = SectionOfVisited(j)

NotGraft(n) == ~IsGraft(n)

\* The backbone nodes of the composite tree, depth first, and the nodes of
\* cpc-tree.json, depth first.
BackboneOrder == SelectSeq(Walk(st.heap, st.t2_tree), NotGraft)

CpcOrder == Walk(files["cpc-tree.json"].heap, files["cpc-tree.json"].tree)

CpcNode(k) == files["cpc-tree.json"].heap[CpcOrder[k]]

\* The children of a node of the composite tree.
KidsOf(n) == IF st.heap[n].hasChildren THEN st.heap[n].children ELSE <<>>

\* The code of the top-level section the k-th CPC node lies under.
RootCodeOf(k) ==
    CpcNode(Max({ p \in 1..k : CpcOrder[p] \in Range(files["cpc-tree.json"].tree) })).code

\* The k-th backbone node is the k-th CPC node re-prefixed, with as many
\* backbone children.
SameAsCpc(k) ==
    LET b == st.heap[BackboneOrder[k]]
    IN  /\ b.code = CpcNode(k).code /\ b.name = CpcNode(k).name
        /\ b.type = CpcNode(k).type
        /\ b.id = Reprefix(CpcNode(k).id, <<"cpc-">>, <<"t2-">>)
        /\ Len(SelectSeq(KidsOf(BackboneOrder[k]), NotGraft))
              = IF CpcNode(k).hasChildren THEN Len(CpcNode(k).children) ELSE 0

\* The k-th backbone node has detail among its children.
TookDetail(k) == \E c \in Range(KidsOf(BackboneOrder[k])) : IsGraft(c)

\* The k-th backbone node is as the k-th CPC node in its children field too.
Untouched(k) ==
    /\ ~TookDetail(k)
    /\ st.heap[BackboneOrder[k]].hasChildren = CpcNode(k).hasChildren

\* C25: generate_taxonomy2 gives children to a backbone node only if that
\* node is a leaf of the re-prefixed CPC tree lying under a top-level section
\* with code '0'..'4' and the concordance maps its CPC code to at least one HS
\* code with a non-empty extraction; every node under sections '5'..'9' and
\* every backbone node that already had children keeps its children list,
\* code, name and type, and the backbone tree shape is otherwise preserved.
C25_GraftOnlyGoodsLeaves ==
    T2Grafted =>
        /\ Len(BackboneOrder) = Len(CpcOrder)
        /\ \A k \in 1..Len(BackboneOrder) :
              /\ SameAsCpc(k)
              /\ TookDetail(k) =>
                    /\ ~CpcNode(k).hasChildren
                    /\ RootCodeOf(k) \in { <<"0">>, <<"1">>, <<"2">>, <<"3">>, <<"4">> }
                    /\ Has(st.cpc_to_hs, CpcNode(k).code)
                    /\ \E m \in Range(Get(st.cpc_to_hs, CpcNode(k).code)) :
                          hts_matches(st.hts_index, m.code) # <<>>
              /\ ~TookDetail(k) => Untouched(k)
              /\ CpcNode(k).hasChildren => Untouched(k)
              /\ RootCodeOf(k) \notin { <<"0">>, <<"1">>, <<"2">>, <<"3">>, <<"4">> }
                    => Untouched(k)
        /\ \A n \in Range(Walk(st.heap, st.t2_tree)) :
              IsGraft(n) => \A c \in Range(KidsOf(n)) : IsGraft(c)

\* generate_taxonomy2 has grafted detail under a goods leaf and has left alone
\* the service leaf 51, mapped by the concordance to an HS code that has
\* detail.
C25_Witness ==
    /\ T2Grafted
    /\ \E k \in 1..Len(BackboneOrder) : TookDetail(k)
    /\ \E k \in 1..Len(BackboneOrder) :
          /\ CpcNode(k).code = <<"5", "1">> /\ Has(st.cpc_to_hs, <<"5", "1">>)
          /\ Untouched(k)
          /\ \E m \in Range(Get(st.cpc_to_hs, <<"5", "1">>)) :
                hts_matches(st.hts_index, m.code) # <<>>

\* A goods node with a child, mapped by the concordance to an HS code that has
\* detail, is left alone.
NonLeafLeftAlone ==
    /\ T2Grafted
    /\ \E k \in 1..Len(BackboneOrder) :
          /\ CpcNode(k).hasChildren /\ RootCodeOf(k) = <<"0">>
          /\ Has(st.cpc_to_hs, CpcNode(k).code)
          /\ Untouched(k)
          /\ \E m \in Range(Get(st.cpc_to_hs, CpcNode(k).code)) :
                hts_matches(st.hts_index, m.code) # <<>>
\* ------------------------------------------------------------------------
\* C26
\* ------------------------------------------------------------------------
\* The places a node is put in: positions of children lists and of the root
\* list.
PlacesOf(heap, tree, n) ==
    { <<p, i>> \in (1..Len(heap)) \X (1..Len(heap)) :
         i <= Len(heap[p].children) /\ heap[p].children[i] = n }
    \cup { <<0, i>> : i \in { j \in 1..Len(tree) : tree[j] = n } }

\* The nodes in S and everything below them.
RECURSIVE Below(_, _)
Below(heap, S) ==
    LET next == S \cup UNION { Range(heap[m].children) : m \in S }
    IN  IF next = S THEN S ELSE Below(heap, next)

\* The generators that build a tree from records are at work.
Assembling == gen \in DOMAIN LookupFile /\ pc # "aborted"

\* C26: in every generator, each node created from a record is placed in at
\* most one children list or in the root list, never in two, and no node is
\* placed in its own children list or below one of its descendants; this holds
\* for any input rows, including rows with an empty or repeated code.
C26_SingleOwnership ==
    Assembling =>
        \A n \in 1..Len(st.heap) :
            /\ Cardinality(PlacesOf(st.heap, st.tree, n)) <= 1
            /\ n \notin Below(st.heap, Range(st.heap[n].children))

\* generate_cpc has read a row with an empty code: its node is in its own
\* children list.
C26_Witness ==
    /\ gen = "cpc"
    /\ \E n \in 1..Len(st.heap) :
          /\ st.heap[n].code = <<>>
          /\ n \in Range(st.heap[n].children)

\* ------------------------------------------------------------------------
\* C27
\* ------------------------------------------------------------------------
LookupFiles ==
    { "hs-lookup.json", "cpc-lookup.json", "cn-lookup.json", "hts-lookup.json",
      "ca-lookup.json", "unspsc-lookup.json", "t1-lookup.json", "t2-lookup.json" }

\* A step of the main run in which the running generator ends, and how.
ReturnStep == gen = "main" /\ st.running # "" /\ st'.running = ""

OutcomeOfStep == st'.log[Len(st'.log)].event

\* The documents the step has created or changed.
ChangedByStep ==
    { f \in DOMAIN files' : f \notin DOMAIN files \/ files'[f] # files[f] }

\* C27: when a generator aborts (missing dependency in generate_cn or
\* generate_canadian, or a missing required input file such as the section
\* table), it writes neither its tree nor its lookup document, and every
\* document written by generators that completed earlier in the run is left
\* unchanged; each generator writes its documents only after its tree and
\* lookup are completely built.
C27_AbortWritesNothing ==
    [][/\ (ReturnStep /\ OutcomeOfStep # "done") =>
             /\ ChangedByStep \cap (TreeFiles \cup LookupFiles) = {}
             /\ \A f \in DOMAIN files : f \in DOMAIN files' /\ files'[f] = files[f]
       /\ ChangedByStep # {} =>
             /\ ReturnStep
             /\ ChangedByStep \subseteq Writes(st.running)
             /\ OutcomeOfStep = "done" => Writes(st.running) \subseteq DOMAIN files'
       /\ DOMAIN files \subseteq DOMAIN files']_vars

\* generate_cn and generate_canadian have returned for want of openpyxl and
\* pyodbc and generate_unspsc has raised, after generate_hs, generate_cpc,
\* generate_hts and generate_concordance wrote their documents: the output
\* directory holds those and no CN, Canadian or UNSPSC document.
C27_Witness ==
    /\ gen = "main" /\ pc = "crashed"
    /\ [event |-> "aborted", gen |-> "generate_cn"] \in Range(st.log)
    /\ [event |-> "aborted", gen |-> "generate_canadian"] \in Range(st.log)
    /\ [event |-> "raised", gen |-> "generate_unspsc"] \in Range(st.log)
    /\ DOMAIN files = Writes("generate_hs") \cup Writes("generate_cpc")
                         \cup Writes("generate_hts") \cup Writes("generate_concordance")

\* ------------------------------------------------------------------------
\* C28
\* ------------------------------------------------------------------------
\* The last item read was processed (it has a description), and its node.
JustProcessed == rows # <<>> /\ rows[Len(rows)].description # <<>>

\* C28: in generate_hts, after each record is processed, the indents of the
\* stack entries are strictly increasing from bottom to top, every node on the
\* stack has a 'children' field, every node on the stack is an ancestor of the
\* node above it, and the record just processed is on top of the stack exactly
\* when it has a 'children' field.
C28_IndentStackInvariant ==
    (gen = "hts" /\ pc = "rows") =>
        /\ \A i, j \in 1..Len(st.stack) :
              i < j => st.stack[i].indent < st.stack[j].indent
        /\ \A i \in 1..Len(st.stack) :
              /\ st.heap[st.stack[i].node].hasChildren
              /\ i < Len(st.stack) =>
                    st.stack[i + 1].node
                       \in Below(st.heap, Range(st.heap[st.stack[i].node].children))
        /\ JustProcessed =>
              (st.heap[Len(st.heap)].hasChildren
                 <=> (st.stack # <<>> /\ st.stack[Len(st.stack)].node = Len(st.heap)))

\* The stack holds three nodes, the last of them the record just processed,
\* and a record without a 'children' field was processed before it.
C28_Witness ==
    /\ gen = "hts" /\ pc = "rows" /\ JustProcessed
    /\ Len(st.stack) = 3
    /\ st.stack[3].node = Len(st.heap)
    /\ \E n \in 1..Len(st.heap) :
          ~st.heap[n].hasChildren /\ \A i \in 1..3 : st.stack[i].node # n

\* ------------------------------------------------------------------------
\* C29
\* ------------------------------------------------------------------------
\* Generator g has returned after its writes before the i-th event of the run.
FinishedBefore(g, i) ==
    \E j \in 1..(i - 1) : st.log[j] = [event |-> "done", gen |-> g]

\* Every generator that has started found each document it reads written by a
\* generator that had finished.
ReadersAfterWriters ==
    \A i \in 1..Len(st.log) :
        st.log[i].event = "start" =>
            \A f \in Reads(st.log[i].gen) :
                \E w \in Range(PIPELINE) : f \in Writes(w) /\ FinishedBefore(w, i)

\* The order named for the three readers.
NamedOrder ==
    \A i \in 1..Len(st.log) :
        st.log[i].event = "start" =>
            /\ st.log[i].gen = "generate_unspsc_hs_fuzzy_mapping" =>
                  FinishedBefore("generate_hs", i) /\ FinishedBefore("generate_unspsc", i)
            /\ st.log[i].gen = "generate_taxonomy1" =>
                  FinishedBefore("generate_hts", i) /\ FinishedBefore("generate_cpc", i)
            /\ st.log[i].gen = "generate_taxonomy2" =>
                  /\ FinishedBefore("generate_cpc", i) /\ FinishedBefore("generate_hts", i)
                  /\ FinishedBefore("generate_concordance", i)

EmptyConcordance ==
    [hsToCpc |-> EmptyDict, cpcToHs |-> EmptyDict, mappingInfo |-> EmptyDict]

\* The written composite tree is the written CPC tree with ids re-prefixed.
T2IsCpcReprefixed ==
    LET t2    == files["t2-tree.json"]
        cpc   == files["cpc-tree.json"]
        order == Walk(t2.heap, t2.tree)
        from  == Walk(cpc.heap, cpc.tree)
    IN  /\ Len(order) = Len(from)
        /\ Len(t2.tree) = Len(cpc.tree)
        /\ \A k \in 1..Len(order) :
              LET a == t2.heap[order[k]]
                  b == cpc.heap[from[k]]
              IN  /\ a.id = Reprefix(b.id, <<"cpc-">>, <<"t2-">>)
                  /\ a.code = b.code /\ a.name = b.name /\ a.type = b.type
                  /\ a.hasChildren = b.hasChildren
                  /\ Len(a.children) = Len(b.children)

\* C29: in the main run every generator that reads a generated document
\* starts only after the generator that writes that document has finished:
\* generate_unspsc_hs_fuzzy_mapping after generate_hs and generate_unspsc;
\* generate_taxonomy1 after generate_hts and generate_cpc; generate_taxonomy2
\* after generate_cpc, generate_hts and generate_concordance; and
\* generate_concordance always leaves a concordance document (an empty one when
\* the declared table is missing), in which case generate_taxonomy2 grafts
\* nothing and its tree is the CPC tree with ids re-prefixed.
C29_PipelineOrdering ==
    gen = "main" =>
        /\ ReadersAfterWriters
        /\ NamedOrder
        /\ (\E i \in 1..Len(st.log) :
               st.log[i].gen = "generate_concordance" /\ st.log[i].event # "start") =>
              /\ [event |-> "done", gen |-> "generate_concordance"] \in Range(st.log)
              /\ "concordance.json" \in DOMAIN files
              /\ ~rows.concordance.exists => files["concordance.json"] = EmptyConcordance
        /\ ([event |-> "done", gen |-> "generate_taxonomy2"] \in Range(st.log)
              /\ ~rows.concordance.exists) => T2IsCpcReprefixed

\* A main run without CPC21-HS2017.csv has printed "Done!": all ten
\* generators ran in turn, and the composite tree is the CPC tree re-prefixed.
C29_Witness ==
    /\ gen = "main" /\ pc = "finished"
    /\ ~rows.concordance.exists
    /\ files["concordance.json"] = EmptyConcordance
    /\ Len(Walk(files["t2-tree.json"].heap, files["t2-tree.json"].tree)) >= 4
    /\ T2IsCpcReprefixed
    /\ \A g \in Range(PIPELINE) : [event |-> "done", gen |-> g] \in Range(st.log)

\* ------------------------------------------------------------------------
\* C30
\* ------------------------------------------------------------------------
\* C30: two runs of generate_hts (and of the composers that consume its tree)
\* on the same input rows and the same section table produce identical tree
\* and lookup documents, including the ids of HTS group nodes that have no
\* code, whose id is derived from the stack depth and a hash of the
\* description.
C30_BuildDeterminism ==
    (gen = "hts-runs" /\ pc = "done") => files = st.first

\* Two runs on a file with a group without number have written trees that
\* hold the group under different ids, and the same lookup.
C30_Witness ==
    /\ gen = "hts-runs" /\ pc = "done"
    /\ "hts-tree.json" \in DOMAIN files
    /\ files["hts-lookup.json"] = st.first["hts-lookup.json"]
    /\ LET now    == files["hts-tree.json"]
           before == st.first["hts-tree.json"]
           order  == Walk(now.heap, now.tree)
           was    == Walk(before.heap, before.tree)
       IN  /\ Len(order) = Len(was)
           /\ \E k \in 1..Len(order) :
                 /\ now.heap[order[k]].code = <<>>
                 /\ now.heap[order[k]].type = "group"
                 /\ now.heap[order[k]].name = before.heap[was[k]].name
                 /\ now.heap[order[k]].id # before.heap[was[k]].id

====
